---- MODULE Spec2Model ----
(***************************************************************************)
(* NotMetronome: the push synthesizer (the Android module                  *)
(* NotmetronomeAudioEngineModule, Kotlin) and the scheduler class          *)
(* MetronomeAudioScheduler (TypeScript) on its WebAudio (pull) path and on *)
(* its native path, where it is an adapter in front of the Kotlin module.  *)
(*                                                                         *)
(* Three specifications share the variables:                               *)
(*   SpecEngine  the Kotlin module driven directly by a caller;            *)
(*   SpecWeb     the scheduler with this.native = null;                    *)
(*   SpecNative  the scheduler with this.native set, calling the module.   *)
(*                                                                         *)
(* Time is in whole milliseconds.  An optional value (Kotlin T?, a         *)
(* TypeScript "| null | undefined") is a sequence of length 0 or 1; a      *)
(* nullable list that the code never keeps empty is the empty sequence     *)
(* when null.  A JavaScript/Kotlin argument map is a record with a field   *)
(* "keys", the set of keys that are present.                               *)
(***************************************************************************)
EXTENDS Integers, Sequences, FiniteSets, TLC

\* ------------------------------------------------------------------ bounds
MaxRuns == 2        \* start() calls that get as far as creating a worker / timer
MaxTicks == 2       \* beats one worker emits
MaxUpdates == 2     \* updates published to the pending slot
MaxCalls == 3       \* start / stop / update calls made on the scheduler
MaxNow == 100       \* the audio clock stops advancing here (ms)
MaxWriteFailures == 1   \* buffer writes the host rejects
MaxBars == 2        \* bars the interface adds to the timeline
MaxEscapes == 2     \* host failures while a click is enqueued
MaxTop == 12        \* largest meter numerator handed to deriveAccentPerTick
MaxTotal == 6       \* largest total handed to buildCanFill

\* the audio threads the module creates, by run
Workers == 1..MaxRuns

\* --------------------------------------------------------------- variables
VARIABLES
  \* Kotlin module
  running,          \* AtomicBoolean running
  statusRef,        \* AtomicReference<EngineStatus>
  audioTrack,       \* AudioTrack? : <<>> or <<track id>>
  thread,           \* Thread?     : <<>> or <<worker id>>
  active,           \* the @Volatile active params
  pendingParams,    \* AtomicReference<EngineParams?>
  modPc,            \* the module's function queue: "idle" | "starting" | "stopJoin"
  wk,               \* the audio threads, by run: the locals of runAudioLoop
  released,         \* AudioTrack ids on which release() was called
  runs,             \* number of AudioTracks / threads created so far
  \* what the module's listeners have seen (history)
  lastState,        \* status of the last onState event
  pubSeq,           \* number of updates published to pendingParams so far
  \* the bridge between JavaScript and the module
  callQ,            \* calls of module functions issued by the scheduler, not yet begun
  retQ,             \* settled promises of start / stop whose continuation has not run
  tickQ,            \* onTick events sent by the module, not yet handled by the listener
  \* MetronomeAudioScheduler and its host (timers, audio clock)
  sch,              \* the fields of the scheduler object ("this")
  now,              \* context.currentTime / the timer clock, in ms
  intervals,        \* ids of the setInterval timers that exist (not cleared)
  notifyTimers,     \* due times of the setTimeout of maybeNotifyBarChange
  suspended,        \* start() calls suspended in `await this.ensureWebContext()`
  \* what the scheduler's caller has seen (history)
  ticksOut,         \* the tick events the latest delivering step handed to onTick
  lastTick,         \* the last tick event delivered in this run
  stopped,          \* stop() has completed and start() was not called since
  calls,            \* number of start / stop / update calls made on the scheduler
  \* the interface: the meter store and the rhythm utilities it calls
  store,            \* useMeterStore state: bars, selectedBarIndex
  accent,           \* the latest deriveAccentPerTick call: arguments and result
  canFill,          \* the latest buildCanFill call: arguments and result
  callerArrays,     \* the arrays the scheduler's caller holds and may mutate in place
  escaped           \* exceptions that left a scheduler timer callback uncaught

engineVars == <<running, statusRef, audioTrack, thread, active, pendingParams, modPc,
                wk, released, runs, lastState, pubSeq>>

bridgeVars == <<callQ, retQ, tickQ>>

jsVars ==
  <<sch, now, intervals, notifyTimers, suspended, ticksOut, lastTick, stopped, calls>>

uiVars == <<store, accent, canFill, callerArrays, escaped>>

vars == <<engineVars, bridgeVars, jsVars, uiVars>>

\* ------------------------------------------------------------ small helpers
Null == <<>>
Some(x) == <<x>>
Val(o) == o[1]
IsNull(o) == Len(o) = 0

AllTrue(n) == [i \in 1..n |-> TRUE]
AnyTrue(m) == \E i \in 1..Len(m) : m[i]
Min2(a, b) == IF a < b THEN a ELSE b
Max2(a, b) == IF a > b THEN a ELSE b

\* ================================================================ Kotlin
clampIntNative(v, min, max) == IF v < min THEN min ELSE IF v > max THEN max ELSE v

coerceInNative(v, min, max) == clampIntNative(v, min, max)

\* Normalize a mask to length n, and ensure at least one "true"
normalizeSubdivMaskNative(subdiv, mask) ==
  LET n == clampIntNative(subdiv, 1, 8) IN
  IF Len(mask) = 0 THEN AllTrue(n)
  ELSE IF Len(mask) = n
       THEN (IF AnyTrue(mask) THEN mask ELSE [i \in 1..n |-> i = 1])
       ELSE LET out == [i \in 1..n |-> IF i <= Len(mask) THEN mask[i] ELSE TRUE]
            IN  IF AnyTrue(out) THEN out ELSE [out EXCEPT ![1] = TRUE]

\* parseSubdivMask(subdiv, any): `has` is any != null
parseSubdivMask(subdiv, has, any) ==
  LET n == clampIntNative(subdiv, 1, 8) IN
  IF ~has THEN AllTrue(n)
  ELSE LET bools == [i \in 1..n |-> IF i <= Len(any) THEN any[i] ELSE TRUE]
       IN  IF AnyTrue(bools) THEN bools ELSE [bools EXCEPT ![1] = TRUE]

parsePulseSubdivs(has, any) == IF has THEN any ELSE Null

parsePulseSubdivMasks(has, any) == IF has THEN any ELSE Null

normalizePulseSubdivsNative(meterN, pulse) ==
  IF Len(pulse) = 0 THEN Null
  ELSE LET n == Max2(meterN, 1)
           last == pulse[Len(pulse)]
       IN  [i \in 1..n |-> clampIntNative(IF i <= Len(pulse) THEN pulse[i] ELSE last, 1, 8)]

normalizePulseMasksNative(meterN, pulseSubdivs, masks) ==
  IF Len(pulseSubdivs) = 0 THEN Null
  ELSE LET n == Max2(meterN, 1) IN
       [i \in 1..n |->
          normalizeSubdivMaskNative(clampIntNative(pulseSubdivs[i], 1, 8),
                                    IF i <= Len(masks) THEN masks[i] ELSE <<>>)]

\* computeGroupStarts: starts[i] for the beat i-1
RECURSIVE NormalizedGroups(_, _, _)
NormalizedGroups(cleaned, n, acc) ==
  IF acc >= n THEN <<>>
  ELSE IF Len(cleaned) = 0 THEN <<n - acc>>
  ELSE LET take == Min2(cleaned[1], n - acc)
       IN  <<take>> \o NormalizedGroups(Tail(cleaned), n, acc + take)

RECURSIVE SumSeq(_)
SumSeq(s) == IF Len(s) = 0 THEN 0 ELSE s[1] + SumSeq(Tail(s))

computeGroupStarts(meterN, groups) ==
  LET n == Max2(meterN, 1)
      positive == SelectSeq(groups, LAMBDA g : g > 0)
      cleaned == IF Len(positive) = 0 THEN <<n>> ELSE positive
      normalized == NormalizedGroups(cleaned, n, 0)
      ends == {SumSeq(SubSeq(normalized, 1, k)) : k \in 1..Len(normalized)}
  IN  [i \in 1..n |-> (i = 1) \/ ((i - 1) \in ends)]

\* ---- EngineParams and the argument maps of start / update
EngineMap(keys, bpm, meterN, meterD, groups, subdiv, subdivMask, pulseSubdivs, pulseSubdivMasks, applyAt) ==
  [keys |-> keys, bpm |-> bpm, meterN |-> meterN, meterD |-> meterD, groups |-> groups,
   subdiv |-> subdiv, subdivMask |-> subdivMask, pulseSubdivs |-> pulseSubdivs,
   pulseSubdivMasks |-> pulseSubdivMasks, applyAt |-> applyAt]

Has(map, k) == k \in map.keys

\* data class EngineParams; seq is no field of the code: it numbers the published
\* updates so that the history variables can tell them apart
EngineParams(bpm, meterN, meterD, groups, subdiv, subdivMask, pulseSubdivs, pulseSubdivMasks, applyAt) ==
  [bpm |-> bpm, meterN |-> meterN, meterD |-> meterD, groups |-> groups,
   subdiv |-> subdiv, subdivMask |-> subdivMask, pulseSubdivs |-> pulseSubdivs,
   pulseSubdivMasks |-> pulseSubdivMasks, applyAt |-> applyAt, seq |-> 0]

parseStartParams(map) ==
  LET bpm0 == IF Has(map, "bpm") THEN map.bpm ELSE 120
      meterN0 == IF Has(map, "meterN") THEN map.meterN ELSE 4
      meterD0 == IF Has(map, "meterD") THEN map.meterD ELSE 4
      groups0 == IF Has(map, "groups") THEN map.groups ELSE <<>>
      subdiv0 == IF Has(map, "subdiv") THEN map.subdiv ELSE 1
  IN  EngineParams(coerceInNative(bpm0, 30, 300), coerceInNative(meterN0, 1, 64),
                   coerceInNative(meterD0, 1, 64), groups0, clampIntNative(subdiv0, 1, 8),
                   parseSubdivMask(subdiv0, Has(map, "subdivMask"), map.subdivMask),
                   parsePulseSubdivs(Has(map, "pulseSubdivs"), map.pulseSubdivs),
                   parsePulseSubdivMasks(Has(map, "pulseSubdivMasks"), map.pulseSubdivMasks),
                   IF Has(map, "applyAt") THEN map.applyAt ELSE "now")

\* parseUpdateParams reads the active fields for the keys the map omits
parseUpdateParams(map, act) ==
  LET bpmNew == IF Has(map, "bpm") THEN map.bpm ELSE act.bpm
      meterNNew == IF Has(map, "meterN") THEN map.meterN ELSE act.meterN
      meterDNew == IF Has(map, "meterD") THEN map.meterD ELSE act.meterD
      groupsNew == IF Has(map, "groups") THEN map.groups ELSE act.groups
      subdivNew == IF Has(map, "subdiv") THEN map.subdiv ELSE act.subdiv
      maskNew == IF Has(map, "subdivMask")
                 THEN parseSubdivMask(subdivNew, TRUE, map.subdivMask)
                 ELSE normalizeSubdivMaskNative(subdivNew, act.subdivMask)
  IN  EngineParams(coerceInNative(bpmNew, 30, 300), coerceInNative(meterNNew, 1, 64),
                   coerceInNative(meterDNew, 1, 64), groupsNew,
                   clampIntNative(subdivNew, 1, 8), maskNew,
                   IF Has(map, "pulseSubdivs")
                     THEN parsePulseSubdivs(TRUE, map.pulseSubdivs) ELSE act.pulseSubdivs,
                   IF Has(map, "pulseSubdivMasks")
                     THEN parsePulseSubdivMasks(TRUE, map.pulseSubdivMasks)
                     ELSE act.pulseSubdivMasks,
                   IF Has(map, "applyAt") THEN map.applyAt ELSE "now")

\* val safe = if (applyAt == "now") p.copy(applyAt = "now") else p.copy(applyAt = "bar")
SafeApplyAt(p) == [p EXCEPT !.applyAt = IF p.applyAt = "now" THEN "now" ELSE "bar"]

\* applyParamsNow(p): the new values of the @Volatile fields (seq: the number of
\* the published update they come from, 0 for a start or an update while idle)
applyParamsNow(p) ==
  LET sd == clampIntNative(p.subdiv, 1, 8)
      ps == normalizePulseSubdivsNative(p.meterN, p.pulseSubdivs)
  IN  [bpm |-> p.bpm, meterN |-> p.meterN, meterD |-> p.meterD, groups |-> p.groups,
       subdiv |-> sd, subdivMask |-> normalizeSubdivMaskNative(sd, p.subdivMask),
       pulseSubdivs |-> ps,
       pulseSubdivMasks |-> normalizePulseMasksNative(p.meterN, ps, p.pulseSubdivMasks),
       seq |-> p.seq]

\* the field initialisers of the module
ActiveDefaults ==
  [bpm |-> 120, meterN |-> 4, meterD |-> 4, groups |-> <<>>, subdiv |-> 1,
   subdivMask |-> <<TRUE>>, pulseSubdivs |-> Null, pulseSubdivMasks |-> Null, seq |-> 0]

\* secondsPerTick = (60.0 / curBpm) * (4.0 / curMeterD), here in whole milliseconds
SamplesPerTick(bpm, meterD) == 240000 \div (bpm * Max2(meterD, 1))

\* ---- the locals of runAudioLoop, one record per thread
NoWorker ==
  [pc |-> "none", held |-> Null, barBeatIndex |-> 0, tickIndex |-> 0, nextAt |-> 0,
   track |-> 0, groupStarts |-> <<TRUE>>, currentBeatSubdiv |-> 1,
   currentBeatMask |-> <<TRUE>>, failed |-> FALSE]

NewWorker(trackId, act) ==
  [NoWorker EXCEPT !.pc = "loop", !.track = trackId,
                   !.groupStarts = computeGroupStarts(act.meterN, act.groups)]

\* ---- the inputs of a direct caller of the module
NoMap == EngineMap({}, 0, 0, 0, <<>>, 0, <<>>, <<>>, <<>>, "now")

StartMaps ==
  { [NoMap EXCEPT !.keys = {"bpm", "meterN", "meterD", "subdiv", "subdivMask"},
                  !.bpm = 120, !.meterN = 2, !.meterD = 4, !.subdiv = 1,
                  !.subdivMask = <<TRUE>>] }

UpdateMaps ==
  { [NoMap EXCEPT !.keys = {"bpm", "applyAt"}, !.bpm = 60, !.applyAt = "now"],
    [NoMap EXCEPT !.keys = {"meterN", "subdiv", "subdivMask", "applyAt"}, !.meterN = 3,
                  !.subdiv = 2, !.subdivMask = <<FALSE, FALSE>>, !.applyAt = "bar"] }

\* ---- who calls the module: the scheduler when it has this.native (the calls wait
\* in callQ), else a caller that invokes the module's functions directly
DirectMaps(op) ==
  IF op = "start" THEN StartMaps ELSE IF op = "update" THEN UpdateMaps ELSE {NoMap}

Calls(op) ==
  IF sch.native
    THEN (IF callQ /= <<>> /\ Head(callQ).op = op THEN {Head(callQ)} ELSE {})
    ELSE {[op |-> op, map |-> m] : m \in DirectMaps(op)}

Taken == IF sch.native THEN Tail(callQ) ELSE callQ

\* the promise of start / stop settles: the scheduler awaits these two
Settled(op, ok) ==
  IF sch.native /\ op \in {"start", "stop"} THEN Append(retQ, [op |-> op, ok |-> ok]) ELSE retQ

\* ---- AsyncFunction("start"): the module's functions run one at a time on the
\* module queue, each concurrent with the audio threads
EStartQueue ==
  \* if (running.get()) { pendingParams.set(safe); emitState("running", ...) }
  /\ modPc = "idle"
  /\ running
  /\ pubSeq < MaxUpdates
  /\ \E c \in Calls("start") :
       pendingParams' = Some([SafeApplyAt(parseStartParams(c.map)) EXCEPT !.seq = pubSeq + 1])
  /\ pubSeq' = pubSeq + 1
  /\ lastState' = "running"
  /\ callQ' = Taken
  /\ retQ' = Settled("start", TRUE)
  /\ UNCHANGED <<running, statusRef, audioTrack, thread, active, modPc, wk, released,
                 runs, tickQ, jsVars, uiVars>>

EStartBegin ==
  \* statusRef.set("starting"); emitState("starting"); applyParamsNow(p.copy(applyAt = "now"))
  /\ modPc = "idle"
  /\ ~running
  /\ statusRef' = "starting"
  /\ lastState' = "starting"
  /\ \E c \in Calls("start") : active' = applyParamsNow(parseStartParams(c.map))
  /\ modPc' = "starting"
  /\ callQ' = Taken
  /\ UNCHANGED <<running, audioTrack, thread, pendingParams, wk, released, runs, pubSeq,
                 retQ, tickQ, jsVars, uiVars>>

EStartOk ==
  \* createAudioTrackOrThrow returns: running, emitState("running"), the thread starts
  /\ modPc = "starting"
  /\ runs < MaxRuns
  /\ audioTrack' = Some(runs + 1)
  /\ running' = TRUE
  /\ statusRef' = "running"
  /\ lastState' = "running"
  /\ thread' = Some(runs + 1)
  /\ wk' = [wk EXCEPT ![runs + 1] = NewWorker(runs + 1, active)]
  /\ runs' = runs + 1
  /\ modPc' = "idle"
  /\ retQ' = Settled("start", TRUE)
  /\ UNCHANGED <<active, pendingParams, released, pubSeq, callQ, tickQ, jsVars, uiVars>>

EStartThrows ==
  \* createAudioTrackOrThrow throws: the function ends with the promise rejected
  /\ modPc = "starting"
  /\ modPc' = "idle"
  /\ retQ' = Settled("start", FALSE)
  /\ UNCHANGED <<running, statusRef, audioTrack, thread, active, pendingParams, wk,
                 released, runs, lastState, pubSeq, callQ, tickQ, jsVars, uiVars>>

\* ---- AsyncFunction("stop")
EStopIdle ==
  \* if (!running.get()) { statusRef.set("idle"); emitState("idle", "already stopped") }
  /\ modPc = "idle"
  /\ ~running
  /\ Calls("stop") /= {}
  /\ statusRef' = "idle"
  /\ lastState' = "idle"
  /\ callQ' = Taken
  /\ retQ' = Settled("stop", TRUE)
  /\ UNCHANGED <<running, audioTrack, thread, active, pendingParams, modPc, wk,
                 released, runs, pubSeq, tickQ, jsVars, uiVars>>

EStopBegin ==
  \* stopping, running.set(false), then thread?.join(1200)
  /\ modPc = "idle"
  /\ running
  /\ Calls("stop") /= {}
  /\ statusRef' = "stopping"
  /\ lastState' = "stopping"
  /\ running' = FALSE
  /\ modPc' = "stopJoin"
  /\ callQ' = Taken
  /\ UNCHANGED <<audioTrack, thread, active, pendingParams, wk, released, runs,
                 pubSeq, retQ, tickQ, jsVars, uiVars>>

\* join(1200) returns when the thread has ended, or after the timeout while the
\* thread is still inside the host's blocking track.write
JoinReturns ==
  \/ IsNull(thread)
  \/ wk[Val(thread)].pc \in {"done", "write"}

EStopEnd ==
  /\ modPc = "stopJoin"
  /\ JoinReturns
  /\ thread' = Null
  /\ released' = released \cup {audioTrack[i] : i \in 1..Len(audioTrack)}
  /\ audioTrack' = Null
  /\ pendingParams' = Null
  /\ statusRef' = "idle"
  /\ lastState' = "idle"
  /\ modPc' = "idle"
  /\ retQ' = Settled("stop", TRUE)
  /\ UNCHANGED <<running, active, wk, runs, pubSeq, callQ, tickQ, jsVars, uiVars>>

\* ---- AsyncFunction("update")
EUpdateIdle ==
  \* if (!running.get()) { applyParamsNow(...); emitState("idle", "updated while idle") }
  /\ modPc = "idle"
  /\ ~running
  /\ \E c \in Calls("update") :
       active' = applyParamsNow(SafeApplyAt(parseUpdateParams(c.map, active)))
  /\ lastState' = "idle"
  /\ callQ' = Taken
  /\ UNCHANGED <<running, statusRef, audioTrack, thread, pendingParams, modPc, wk,
                 released, runs, pubSeq, retQ, tickQ, jsVars, uiVars>>

EUpdateQueue ==
  \* pendingParams.set(safe); emitState("running", "update queued ...")
  /\ modPc = "idle"
  /\ running
  /\ pubSeq < MaxUpdates
  /\ \E c \in Calls("update") :
       pendingParams' =
         Some([SafeApplyAt(parseUpdateParams(c.map, active)) EXCEPT !.seq = pubSeq + 1])
  /\ pubSeq' = pubSeq + 1
  /\ lastState' = "running"
  /\ callQ' = Taken
  /\ UNCHANGED <<running, statusRef, audioTrack, thread, active, modPc, wk, released,
                 runs, retQ, tickQ, jsVars, uiVars>>

\* ---- runAudioLoop, thread w.  pc: "loop" the while (running.get()) test;
\* "beat" a frame with samplesUntilTick <= 0, before pendingParams.get();
\* "apply" between that get() and pendingParams.set(null); "tick" the rest of the
\* beat trigger; "write" inside track.write; "failed" after emitState("error"),
\* before running.set(false); "exit" after the loop; "done" the thread has ended.
WLoop(w) ==
  /\ wk[w].pc = "loop"
  /\ \/ /\ running
        /\ wk[w].tickIndex < MaxTicks
        /\ wk' = [wk EXCEPT ![w].pc = "beat"]
     \/ /\ running            \* a buffer in which no beat falls
        /\ wk' = [wk EXCEPT ![w].pc = "write"]
     \/ /\ ~running         \* the locals are dead from here on
        /\ wk' = [wk EXCEPT ![w] = [NoWorker EXCEPT !.pc = "exit", !.track = wk[w].track,
                                                    !.failed = wk[w].failed]]
  /\ UNCHANGED <<running, statusRef, audioTrack, thread, active, pendingParams, modPc,
                 released, runs, lastState, pubSeq, bridgeVars, jsVars, uiVars>>

\* val shouldApply = (applyAt == "now") || (applyAt == "bar" && barBeatIndex == 0)
ShouldApply(pending, barBeatIndex) ==
  \/ pending.applyAt = "now"
  \/ (pending.applyAt = "bar" /\ barBeatIndex = 0)

WRead(w) ==
  \* val pending = pendingParams.get()
  /\ wk[w].pc = "beat"
  /\ IF ~IsNull(pendingParams) /\ ShouldApply(Val(pendingParams), wk[w].barBeatIndex)
       THEN wk' = [wk EXCEPT ![w].pc = "apply", ![w].held = pendingParams]
       ELSE wk' = [wk EXCEPT ![w].pc = "tick"]
  /\ UNCHANGED <<running, statusRef, audioTrack, thread, active, pendingParams, modPc,
                 released, runs, lastState, pubSeq, bridgeVars, jsVars, uiVars>>

\* barBeatIndex after the apply: "bar" resets it, "now" keeps it when in range
BarBeatAfterApply(applyAt, barBeatIndex, meterN) ==
  IF applyAt = "bar" THEN 0
  ELSE IF barBeatIndex >= 0 /\ barBeatIndex < Max2(meterN, 1) THEN barBeatIndex ELSE 0

WApply(w) ==
  \* pendingParams.set(null); applyParamsNow(pending.copy(applyAt = "now")); ...
  /\ wk[w].pc = "apply"
  /\ LET pending == Val(wk[w].held) IN
     /\ pendingParams' = Null
     /\ active' = applyParamsNow(pending)
     /\ wk' = [wk EXCEPT
          ![w].pc = "tick",
          ![w].held = Null,
          ![w].groupStarts = computeGroupStarts(active'.meterN, active'.groups),
          ![w].barBeatIndex = BarBeatAfterApply(pending.applyAt, wk[w].barBeatIndex,
                                                active'.meterN),
          ![w].currentBeatSubdiv = 1,
          ![w].currentBeatMask = <<TRUE>>]
  /\ UNCHANGED <<running, statusRef, audioTrack, thread, modPc, released, runs,
                 lastState, pubSeq, bridgeVars, jsVars, uiVars>>

\* the beat's slot count and mask: per-beat data if present, else the legacy pair
BeatSubdivNative(act, bt) ==
  LET curMeterN == Max2(act.meterN, 1) IN
  IF Len(act.pulseSubdivs) > 0 /\ Len(act.pulseSubdivs) = curMeterN
    THEN clampIntNative(act.pulseSubdivs[bt + 1], 1, 8)
    ELSE clampIntNative(act.subdiv, 1, 8)

BeatMaskNative(act, bt) ==
  LET curMeterN == Max2(act.meterN, 1) IN
  IF /\ Len(act.pulseSubdivs) > 0
     /\ Len(act.pulseSubdivMasks) > 0
     /\ Len(act.pulseSubdivs) = curMeterN
     /\ Len(act.pulseSubdivMasks) = curMeterN
    THEN normalizeSubdivMaskNative(BeatSubdivNative(act, bt), act.pulseSubdivMasks[bt + 1])
    ELSE normalizeSubdivMaskNative(clampIntNative(act.subdiv, 1, 8), act.subdivMask)

\* if (barBeatIndex !in 0 until curMeterN) barBeatIndex = 0
BarTickOf(w) ==
  IF wk[w].barBeatIndex >= 0 /\ wk[w].barBeatIndex < Max2(active.meterN, 1)
    THEN wk[w].barBeatIndex ELSE 0

\* emitTick(tickIndex, bt, isDownbeat, atMs)
TickEventOf(w) ==
  [tickIndex |-> wk[w].tickIndex, barTick |-> BarTickOf(w),
   isDownbeat |-> (BarTickOf(w) = 0), atAudioTimeMs |-> wk[w].nextAt]

WTick(w) ==
  /\ wk[w].pc = "tick"
  /\ LET bt == BarTickOf(w)
         curMeterN == Max2(active.meterN, 1)
     IN  wk' = [wk EXCEPT
              ![w].pc = "write",
              ![w].currentBeatSubdiv = BeatSubdivNative(active, bt),
              ![w].currentBeatMask = BeatMaskNative(active, bt),
              ![w].tickIndex = wk[w].tickIndex + 1,
              ![w].barBeatIndex = IF bt + 1 >= curMeterN THEN 0 ELSE bt + 1,
              ![w].nextAt = wk[w].nextAt + SamplesPerTick(active.bpm, active.meterD)]
  /\ tickQ' = IF sch.nativeTickSub THEN Append(tickQ, TickEventOf(w)) ELSE tickQ
  /\ UNCHANGED <<running, statusRef, audioTrack, thread, active, pendingParams, modPc,
                 released, runs, lastState, pubSeq, callQ, retQ, jsVars, uiVars>>

WWriteOk(w) ==
  \* written > 0; a released AudioTrack accepts nothing
  /\ wk[w].pc = "write"
  /\ wk[w].track \notin released
  /\ wk' = [wk EXCEPT ![w].pc = "loop"]
  /\ UNCHANGED <<running, statusRef, audioTrack, thread, active, pendingParams, modPc,
                 released, runs, lastState, pubSeq, bridgeVars, jsVars, uiVars>>

WWriteFail(w) ==
  \* if (written <= 0) { statusRef.set("error"); emitState("error", ...)
  /\ wk[w].pc = "write"
  /\ Cardinality({v \in Workers : wk[v].failed}) < MaxWriteFailures
  /\ statusRef' = "error"
  /\ lastState' = "error"
  /\ wk' = [wk EXCEPT ![w].pc = "failed", ![w].failed = TRUE]
  /\ UNCHANGED <<running, audioTrack, thread, active, pendingParams, modPc, released,
                 runs, pubSeq, bridgeVars, jsVars, uiVars>>

WFailSet(w) ==
  \* running.set(false) }
  /\ wk[w].pc = "failed"
  /\ running' = FALSE
  /\ wk' = [wk EXCEPT ![w].pc = "loop"]
  /\ UNCHANGED <<statusRef, audioTrack, thread, active, pendingParams, modPc,
                 released, runs, lastState, pubSeq, bridgeVars, jsVars, uiVars>>

WExit(w) ==
  \* track.pause(); track.flush(); track.stop(): the thread ends
  /\ wk[w].pc = "exit"
  /\ wk' = [wk EXCEPT ![w] = [NoWorker EXCEPT !.pc = "done", !.failed = wk[w].failed]]
  /\ UNCHANGED <<running, statusRef, audioTrack, thread, active, pendingParams, modPc,
                 released, runs, lastState, pubSeq, bridgeVars, jsVars, uiVars>>

\* ================================================= MetronomeAudioScheduler
LOOKAHEAD_MS == 25

SCHEDULE_AHEAD_MS == 180

START_DELAY_MS == 60

OSCILLATOR_DURATION_MS == 30

MAX_SUBDIV_NATIVE == 8

MAX_SUBDIV_WEB == 16

\* x ?? d
OrElse(o, d) == IF Len(o) = 0 THEN d ELSE o[1]

\* Math.max(min, Math.min(max, Math.floor(Number(value))))
clampInt(value, min, max) == Max2(min, Min2(max, value))

\* allows full silence; a missing entry is audible
normalizeSubdivMask(subdiv, mask, maxSubdiv) ==
  [i \in 1..clampInt(subdiv, 1, maxSubdiv) |-> IF i <= Len(mask) THEN mask[i] ELSE TRUE]

\* a variant that writes the guide into every slot
applyBeatGuideToMaskAllSlots(mask, enabled) ==
  IF ~enabled THEN mask ELSE [i \in 1..Len(mask) |-> TRUE]

applyBeatGuideToMask(mask, enabled) ==
  IF ~enabled THEN mask
  ELSE IF Len(mask) = 0 THEN <<TRUE>> ELSE [mask EXCEPT ![1] = TRUE]

applyBeatGuideToPulseMasks(pulseMasks, enabled) ==
  IF ~enabled THEN pulseMasks
  ELSE [i \in 1..Len(pulseMasks) |-> applyBeatGuideToMask(pulseMasks[i], TRUE)]

normalizePulseSubdivs(meterN, pulseSubdivs, maxSubdiv) ==
  IF Len(pulseSubdivs) = 0 THEN <<>>
  ELSE [i \in 1..Max2(1, meterN) |->
          clampInt(IF i <= Len(pulseSubdivs) THEN pulseSubdivs[i]
                   ELSE pulseSubdivs[Len(pulseSubdivs)], 1, maxSubdiv)]

normalizePulseMasks(meterN, pulseSubdivs, pulseMasks, maxSubdiv) ==
  [i \in 1..Max2(1, meterN) |->
     normalizeSubdivMask(clampInt(IF i <= Len(pulseSubdivs) THEN pulseSubdivs[i] ELSE 1,
                                  1, maxSubdiv),
                         IF i <= Len(pulseMasks) THEN pulseMasks[i] ELSE <<>>, maxSubdiv)]

normalizeMeter(m) == [n |-> clampInt(m.n, 1, 64), d |-> clampInt(m.d, 1, 64)]

\* poolTicks = 0 stands for undefined
\* a variant that checks the sum only, not the size of each group
normalizeClaveGroupsSumOnly(groups, meterN, poolTicks) ==
  IF Len(groups) = 0 THEN <<>>
  ELSE IF SumSeq(groups) = meterN THEN groups
  ELSE IF poolTicks > 0 /\ SumSeq(groups) = poolTicks THEN groups
  ELSE <<>>

normalizeClaveGroups(groups, meterN, poolTicks) ==
  IF Len(groups) = 0 THEN <<>>
  ELSE IF \E i \in 1..Len(groups) : groups[i] < 2 \/ groups[i] > 8 THEN <<>>
  ELSE IF SumSeq(groups) = meterN THEN groups
  ELSE IF poolTicks > 0 /\ SumSeq(groups) = poolTicks THEN groups
  ELSE <<>>

computePoolTicks(meterN, pulseSubdivs, legacySubdiv, maxSubdiv) ==
  IF Len(pulseSubdivs) > 0 /\ Len(pulseSubdivs) = meterN
    THEN SumSeq([i \in 1..Len(pulseSubdivs) |-> clampInt(pulseSubdivs[i], 1, maxSubdiv)])
    ELSE meterN * clampInt(legacySubdiv, 1, maxSubdiv)

\* the meter store (the bars the interface edits and hands to the scheduler)
MIN_GROUP_SIZE == 2
MAX_GROUP_SIZE == 8

computePoolTicksForBar(meter, pulseSubdivs) ==
  IF meter.d /= 4 THEN meter.n
  ELSE IF Len(pulseSubdivs) /= meter.n THEN meter.n
  ELSE SumSeq([i \in 1..Len(pulseSubdivs) |-> clampInt(pulseSubdivs[i], 1, 16)])

\* an absent list is the empty sequence
normalizeGroupsForBar(groups, bar) ==
  IF Len(groups) = 0 THEN <<>>
  ELSE IF \E i \in 1..Len(groups) : groups[i] < MIN_GROUP_SIZE \/ groups[i] > MAX_GROUP_SIZE
    THEN <<>>
  ELSE IF SumSeq(groups) = bar.meter.n THEN groups
  ELSE IF bar.meter.d = 4 /\ SumSeq(groups) = computePoolTicksForBar(bar.meter, bar.pulseSubdivs)
    THEN groups
  ELSE <<>>

\* type BarConfig
BarConfig(meter, groups, pulseSubdivs, pulseSubdivMasks) ==
  [meter |-> meter, groups |-> groups, pulseSubdivs |-> pulseSubdivs,
   pulseSubdivMasks |-> pulseSubdivMasks]

normalizeBars(bars) ==
  [k \in 1..Len(bars) |->
     LET meter == normalizeMeter(bars[k].meter)
         ps == IF meter.d = 4
                 THEN normalizePulseSubdivs(meter.n, bars[k].pulseSubdivs, MAX_SUBDIV_WEB)
                 ELSE <<>>
         pm == IF Len(ps) > 0
                 THEN normalizePulseMasks(meter.n, ps, bars[k].pulseSubdivMasks,
                                          MAX_SUBDIV_WEB)
                 ELSE <<>>
         poolTicks == IF meter.d = 4 THEN computePoolTicks(meter.n, ps, 1, MAX_SUBDIV_WEB)
                      ELSE 0
     IN  BarConfig(meter, normalizeClaveGroups(bars[k].groups, meter.n, poolTicks), ps, pm)]

\* ---- the fingerprint: strings are sequences of one-character or literal tokens
Digits == <<"0", "1", "2", "3", "4", "5", "6", "7", "8", "9">>

RECURSIVE NumStr(_)
NumStr(n) == IF n < 10 THEN <<Digits[n + 1]>> ELSE NumStr(n \div 10) \o <<Digits[(n % 10) + 1]>>

RECURSIVE Join(_, _)
Join(strs, sep) ==
  IF Len(strs) = 0 THEN <<>>
  ELSE IF Len(strs) = 1 THEN strs[1]
  ELSE strs[1] \o <<sep>> \o Join(Tail(strs), sep)

keyNums(arr) == Join([i \in 1..Len(arr) |-> NumStr(arr[i])], ",")

keyBools(arr) == [i \in 1..Len(arr) |-> IF arr[i] THEN "1" ELSE "0"]

keyMasks(m) == Join([i \in 1..Len(m) |-> keyBools(m[i])], "|")

BoolStr(b) == IF b THEN <<"1">> ELSE <<"0">>

\* a variant whose bar strings leave the groups out
computeTimelineSigFromCurrentNoGroups(t) ==
  LET barStr(bar) ==
        NumStr(bar.meter.n) \o <<"/">> \o NumStr(bar.meter.d)
          \o <<"#ps:">> \o keyNums(bar.pulseSubdivs) \o <<"#pm:">> \o keyMasks(bar.pulseSubdivMasks)
      head == << <<"seq:">> \o BoolStr(t.sequenceEnabled), <<"loop:">> \o BoolStr(t.loop),
                 <<"bg:">> \o BoolStr(t.beatGuideEnabled),
                 <<"legacy:">> \o NumStr(t.subdiv) \o <<"|">> \o keyBools(t.subdivMask) >>
      rest == IF t.sequenceEnabled /\ Len(t.bars) > 0
                THEN << <<"bars:">> \o Join([k \in 1..Len(t.bars) |-> barStr(t.bars[k])], "||") >>
                ELSE << <<"m:">> \o NumStr(t.meter.n) \o <<"/">> \o NumStr(t.meter.d),
                        <<"ps:">> \o keyNums(t.pulseSubdivs),
                        <<"pm:">> \o keyMasks(t.pulseSubdivMasks) >>
  IN  Join(head \o rest, "|")

computeTimelineSigFromCurrent(t) ==
  LET barStr(bar) ==
        NumStr(bar.meter.n) \o <<"/">> \o NumStr(bar.meter.d) \o <<"#g:">> \o keyNums(bar.groups)
          \o <<"#ps:">> \o keyNums(bar.pulseSubdivs) \o <<"#pm:">> \o keyMasks(bar.pulseSubdivMasks)
      head == << <<"seq:">> \o BoolStr(t.sequenceEnabled), <<"loop:">> \o BoolStr(t.loop),
                 <<"bg:">> \o BoolStr(t.beatGuideEnabled),
                 <<"legacy:">> \o NumStr(t.subdiv) \o <<"|">> \o keyBools(t.subdivMask) >>
      rest == IF t.sequenceEnabled /\ Len(t.bars) > 0
                THEN << <<"bars:">> \o Join([k \in 1..Len(t.bars) |-> barStr(t.bars[k])], "||") >>
                ELSE << <<"m:">> \o NumStr(t.meter.n) \o <<"/">> \o NumStr(t.meter.d),
                        <<"g:">> \o keyNums(t.groups), <<"ps:">> \o keyNums(t.pulseSubdivs),
                        <<"pm:">> \o keyMasks(t.pulseSubdivMasks) >>
  IN  Join(head \o rest, "|")

\* ---- the scheduler object: its field initialisers and constructor
\* An array is an object: t.arrays[f] says whose array object the field f holds,
\* "own" (an array the scheduler made), or the owner of the options it was given:
\* "caller" (the caller's own array) or "snapshot" (a copy the hook made).
ArrayFields == {"groups", "subdivMask", "pulseSubdivs", "pulseSubdivMasks", "bars"}

\* window is no field of the class: it holds the locals of a scheduleWindow call
\* that is inside its loop (the horizon and who called), Null when none is
SchedulerNew(native) ==
  [native |-> native, nativeTickSub |-> FALSE, nativePrevBeatKey |-> Null,
   nativeSeesSubticks |-> FALSE, nativeSubIndex |-> 0, nativeUiTimers |-> <<>>,
   nativePendingSynthKey |-> Null, context |-> FALSE, timerId |-> Null,
   scheduledNodes |-> {}, bpm |-> 120, meter |-> [n |-> 4, d |-> 4], groups |-> <<>>,
   subdiv |-> 1, subdivMask |-> <<TRUE>>, pulseSubdivs |-> <<>>, pulseSubdivMasks |-> <<>>,
   beatGuideEnabled |-> FALSE, accentMode |-> "beat", poolTicksPerBar |-> 4,
   nativeGroups |-> <<>>, tickIndex |-> 0, nextTickTime |-> 0, sequenceEnabled |-> FALSE,
   bars |-> <<>>, barIndex |-> 0, barTick |-> 0, loop |-> TRUE, pendingBarIndex |-> Null,
   lastBarNotifyTickIndex |-> -1, lastNotifiedBarIndex |-> Null, isRunning |-> FALSE,
   arrays |-> [f \in ArrayFields |-> "own"], window |-> Null]

\* type StartOptions / UpdateOptions; an absent optional field is <<>>
NoOptions ==
  [bpm |-> 120, meter |-> [n |-> 4, d |-> 4], groups |-> <<>>, subdiv |-> Null,
   subdivMask |-> <<>>, pulseSubdivs |-> <<>>, pulseSubdivMasks |-> <<>>, bars |-> <<>>,
   startBarIndex |-> Null, loop |-> Null, beatGuide |-> FALSE, applyAt |-> Null,
   arrays |-> "caller"]

notifyBarChange(t, barIndex) ==
  IF t.lastNotifiedBarIndex = Some(barIndex) THEN t
  ELSE [t EXCEPT !.lastNotifiedBarIndex = Some(barIndex)]

\* (60 / bpm) * (4 / m.d) seconds, in ms
secondsPerTickForMeter(t, m) == 240000 \div (t.bpm * m.d)

clearNativeUiTimers(t) == [t EXCEPT !.nativeUiTimers = <<>>, !.nativePendingSynthKey = Null]

HasPulse(t) == Len(t.pulseSubdivs) > 0 /\ Len(t.pulseSubdivs) = t.meter.n

computeBeatSubdivAndMask(t, barTick, maxSubdiv) ==
  LET safeBarTick == clampInt(barTick, 0, Max2(0, t.meter.n - 1))
      beatSubdiv == IF HasPulse(t) THEN clampInt(t.pulseSubdivs[safeBarTick + 1], 1, maxSubdiv)
                    ELSE clampInt(t.subdiv, 1, maxSubdiv)
      beatMaskRaw ==
        IF HasPulse(t)
          THEN normalizeSubdivMask(beatSubdiv,
                 IF safeBarTick + 1 <= Len(t.pulseSubdivMasks)
                   THEN t.pulseSubdivMasks[safeBarTick + 1] ELSE <<>>, maxSubdiv)
          ELSE normalizeSubdivMask(beatSubdiv, t.subdivMask, maxSubdiv)
  IN  [beatSubdiv |-> beatSubdiv,
       beatMask |-> applyBeatGuideToMask(beatMaskRaw, t.beatGuideEnabled)]

\* the mode and nativeGroups; the two accent tables it assigns are functions of
\* the fields set here (accentLevelsBeat, accentLevelsPool below)
recomputeAccentModel(t, maxSubdiv) ==
  LET pool == computePoolTicks(t.meter.n, t.pulseSubdivs, t.subdiv, maxSubdiv)
      isPool == Len(t.groups) > 0 /\ SumSeq(t.groups) = pool /\ pool > 0
  IN  [t EXCEPT !.poolTicksPerBar = pool,
                !.accentMode = IF isPool THEN "pool" ELSE "beat",
                !.nativeGroups = IF isPool THEN <<>> ELSE t.groups]

applyActiveBar(t, index, resetBarTick) ==
  IF Len(t.bars) = 0 THEN t
  ELSE LET safeIndex == clampInt(index, 0, Len(t.bars) - 1)
           bar == t.bars[safeIndex + 1]
           meter == normalizeMeter(bar.meter)
           ps == IF meter.d = 4
                   THEN normalizePulseSubdivs(meter.n, bar.pulseSubdivs, MAX_SUBDIV_WEB)
                   ELSE <<>>
           pm == IF Len(ps) > 0
                   THEN normalizePulseMasks(meter.n, ps, bar.pulseSubdivMasks, MAX_SUBDIV_WEB)
                   ELSE <<>>
           poolTicks == IF meter.d = 4
                          THEN computePoolTicks(meter.n, ps, t.subdiv, MAX_SUBDIV_WEB) ELSE 0
           t1 == [t EXCEPT !.barIndex = safeIndex, !.meter = meter, !.pulseSubdivs = ps,
                           !.pulseSubdivMasks = pm,
                           !.groups = normalizeClaveGroups(bar.groups, meter.n, poolTicks)]
           t2 == recomputeAccentModel(t1, MAX_SUBDIV_WEB)
       IN  IF resetBarTick THEN [t2 EXCEPT !.barTick = 0] ELSE t2

\* a variant that wraps to bar 0 whatever the loop flag
getNextBarIndexAlwaysWraps(t) ==
  IF Len(t.bars) = 0 THEN 0
  ELSE IF t.barIndex + 1 < Len(t.bars) THEN t.barIndex + 1 ELSE 0

getNextBarIndex(t) ==
  IF Len(t.bars) = 0 THEN 0
  ELSE IF t.barIndex + 1 < Len(t.bars) THEN t.barIndex + 1
  ELSE IF t.loop THEN 0 ELSE Len(t.bars) - 1

\* a variant in which normalizeClaveGroups hands back the array it was given
setFromOptionsArraysKeepsGroups(options) ==
  [f \in ArrayFields |-> IF f = "groups" THEN options.arrays ELSE "own"]

\* the array objects setFromOptions stores: subdivMask, pulseSubdivs and the mask
\* rows come from Array.from, groups is normalizeClaveGroups' `safe`, bars is the
\* result of map / filter with a new object and new arrays per bar
setFromOptionsArrays(options) == [f \in ArrayFields |-> "own"]

\* setFromOptions(options, mode); timelineSig is computeTimelineSigFromCurrent of the result
setFromOptions(t, options, mode) ==
  LET nextSubdiv == clampInt(OrElse(options.subdiv, 1), 1, MAX_SUBDIV_WEB)
      t0 == [t EXCEPT !.bpm = options.bpm, !.beatGuideEnabled = options.beatGuide,
                      !.arrays = setFromOptionsArrays(options),
                      !.subdiv = nextSubdiv,
                      !.subdivMask = normalizeSubdivMask(nextSubdiv, options.subdivMask,
                                                         MAX_SUBDIV_WEB)]
      bars == IF Len(options.bars) > 0 THEN normalizeBars(options.bars) ELSE <<>>
  IN  IF Len(bars) > 0
        THEN LET t1 == [t0 EXCEPT
                          !.sequenceEnabled = TRUE, !.bars = bars,
                          !.loop = OrElse(options.loop, TRUE),
                          !.barIndex =
                            IF mode = "start"
                              THEN clampInt(OrElse(options.startBarIndex, 0), 0, Len(bars) - 1)
                              ELSE clampInt(t0.barIndex, 0, Len(bars) - 1),
                          !.barTick = IF mode = "start" THEN 0 ELSE t0.barTick,
                          !.pendingBarIndex =
                            IF mode = "start" THEN Null ELSE t0.pendingBarIndex]
             IN  recomputeAccentModel(applyActiveBar(t1, t1.barIndex, mode = "start"),
                                      MAX_SUBDIV_WEB)
        ELSE LET meter == normalizeMeter(options.meter)
                 ps0 == normalizePulseSubdivs(meter.n, options.pulseSubdivs, MAX_SUBDIV_WEB)
                 ps == IF Len(ps0) > 0 /\ meter.d = 4 THEN ps0 ELSE <<>>
                 pm == IF Len(ps) > 0
                         THEN normalizePulseMasks(meter.n, ps, options.pulseSubdivMasks,
                                                  MAX_SUBDIV_WEB)
                         ELSE <<>>
                 poolTicks == IF meter.d = 4
                                THEN computePoolTicks(meter.n, ps, nextSubdiv, MAX_SUBDIV_WEB)
                                ELSE 0
             IN  recomputeAccentModel(
                   [t0 EXCEPT !.sequenceEnabled = FALSE, !.bars = <<>>, !.loop = TRUE,
                              !.pendingBarIndex = Null, !.meter = meter,
                              !.pulseSubdivs = ps, !.pulseSubdivMasks = pm,
                              !.groups = normalizeClaveGroups(options.groups, meter.n,
                                                              poolTicks)],
                   MAX_SUBDIV_WEB)

\* ---- the WebAudio path.  A scheduling pass works on t (the object), the tick
\* events handed to onTick so far (ticks) and the armed notify timers (timers)
ScheduledTick(tickIndex, atMs, barTick, isDownbeat, barIndex, subIndex, subCount, isAudible) ==
  [tickIndex |-> tickIndex, atMs |-> atMs, barTick |-> barTick, isDownbeat |-> isDownbeat,
   barIndex |-> barIndex, subIndex |-> subIndex, subCount |-> subCount,
   isAudible |-> isAudible]

maybeNotifyBarChange(p, atTime, clock) ==
  IF ~p.t.sequenceEnabled \/ ~p.t.context \/ p.t.barTick /= 0
       \/ p.t.lastBarNotifyTickIndex = p.t.tickIndex
    THEN p
    ELSE [p EXCEPT !.t.lastBarNotifyTickIndex = p.t.tickIndex,
                   !.timers = p.timers \cup {clock + Max2(0, atTime - clock)}]

\* scheduleClick: the oscillator is tracked until it ends
scheduleClick(t, atTime) ==
  IF ~t.context THEN t ELSE [t EXCEPT !.scheduledNodes = t.scheduledNodes \cup {atTime}]

\* the slots i .. beatSubdiv-1 of the beat at atTime, one tick event each
RECURSIVE EmitSlots(_, _, _, _, _, _)
EmitSlots(t, ticks, atTime, bm, i, secondsPerTick) ==
  IF i >= bm.beatSubdiv THEN [t |-> t, ticks |-> ticks]
  ELSE LET at == atTime + (i * secondsPerTick) \div bm.beatSubdiv
           isAudible == bm.beatMask[i + 1]
           t1 == IF isAudible THEN scheduleClick(t, at) ELSE t
           tick == ScheduledTick(t.tickIndex, at, t.barTick, t.barTick = 0 /\ i = 0,
                                 IF t.sequenceEnabled THEN Some(t.barIndex) ELSE Null,
                                 i, bm.beatSubdiv, isAudible)
       IN  EmitSlots([t1 EXCEPT !.tickIndex = t.tickIndex + 1], Append(ticks, tick), atTime,
                     bm, i + 1, secondsPerTick)

\* scheduleTick(atTime) followed by `this.nextTickTime += dt`
scheduleTick(p, atTime, clock) ==
  LET secondsPerTick == secondsPerTickForMeter(p.t, p.t.meter)
      p1 == maybeNotifyBarChange(p, atTime, clock)
      bm == computeBeatSubdivAndMask(p1.t, p1.t.barTick, MAX_SUBDIV_WEB)
      e == EmitSlots(p1.t, p1.ticks, atTime, bm, 0, secondsPerTick)
      t2 == [e.t EXCEPT !.barTick = e.t.barTick + 1]
      t3 == IF t2.barTick >= t2.meter.n
              THEN LET t4 == [t2 EXCEPT !.barTick = 0]
                   IN  IF t4.sequenceEnabled /\ Len(t4.bars) > 0
                         THEN applyActiveBar(t4, getNextBarIndex(t4), TRUE) ELSE t4
              ELSE t2
  IN  [t |-> [t3 EXCEPT !.nextTickTime = t3.nextTickTime + secondsPerTick],
       ticks |-> e.ticks, timers |-> p1.timers]

RECURSIVE ScheduleLoop(_, _, _)
ScheduleLoop(p, horizon, clock) ==
  IF p.t.nextTickTime < horizon
    THEN ScheduleLoop(scheduleTick(p, p.t.nextTickTime, clock), horizon, clock)
    ELSE p

scheduleWindow(p, clock) ==
  IF ~p.t.context \/ ~p.t.isRunning THEN p
  ELSE ScheduleLoop(p, clock + SCHEDULE_AHEAD_MS, clock)

Pass(t) == [t |-> t, ticks |-> <<>>, timers |-> notifyTimers]

\* the last tick of the run after a delivery
LastOf(ticks, before) == IF Len(ticks) = 0 THEN before ELSE Some(ticks[Len(ticks)])

\* ---- start(options), WebAudio fallback
FreshTimer == CHOOSE i \in 1..(MaxCalls + 1) : i \notin intervals /\ \A j \in 1..(i - 1) : j \in intervals

\* the part of start() before `if (this.native)`
StartCommon(t, options) ==
  [clearNativeUiTimers([setFromOptions(t, options, "start") EXCEPT
                          !.nativePrevBeatKey = Null, !.nativeSeesSubticks = FALSE,
                          !.nativeSubIndex = 0])
     EXCEPT !.lastNotifiedBarIndex = Null, !.lastBarNotifyTickIndex = -1]

WebStart(options) ==
  \* up to `await this.ensureWebContext()`
  /\ ~sch.native
  /\ calls < MaxCalls
  /\ calls' = calls + 1
  /\ stopped' = FALSE
  /\ IF sch.isRunning
       THEN UNCHANGED <<sch, suspended, lastTick>>
       ELSE /\ sch' = StartCommon(sch, options)
            /\ suspended' = suspended + 1
            /\ lastTick' = Null
  /\ UNCHANGED <<now, intervals, notifyTimers, ticksOut, engineVars, bridgeVars, uiVars>>

WebStartResume ==
  \* ensureWebContext has given a context: the rest of start()
  /\ suspended > 0
  /\ suspended' = suspended - 1
  /\ LET t1 == [sch EXCEPT !.context = TRUE, !.isRunning = TRUE, !.tickIndex = 0,
                           !.barTick = 0, !.nextTickTime = now + START_DELAY_MS]
         t2 == IF t1.sequenceEnabled THEN notifyBarChange(t1, t1.barIndex) ELSE t1
         p == scheduleWindow(Pass(t2), now)
     IN  /\ sch' = [p.t EXCEPT !.timerId = Some(FreshTimer)]
         /\ intervals' = intervals \cup {FreshTimer}
         /\ notifyTimers' = p.timers
         /\ ticksOut' = p.ticks
         /\ lastTick' = LastOf(p.ticks, lastTick)
  /\ UNCHANGED <<now, stopped, calls, engineVars, bridgeVars, uiVars>>

WebStartNoContext ==
  \* loadWebAudioContext returned null: onStateChange("error"), return false
  /\ suspended > 0
  /\ ~sch.context
  /\ suspended' = suspended - 1
  /\ UNCHANGED <<sch, now, intervals, notifyTimers, ticksOut, lastTick, stopped, calls,
                 engineVars, bridgeVars, uiVars>>

\* ---- stop(), WebAudio
WebStop ==
  /\ ~sch.native
  /\ calls < MaxCalls
  /\ calls' = calls + 1
  /\ intervals' = intervals \ {sch.timerId[i] : i \in 1..Len(sch.timerId)}
  /\ sch' = [clearNativeUiTimers(sch) EXCEPT
               !.lastNotifiedBarIndex = Null, !.lastBarNotifyTickIndex = -1,
               !.timerId = Null, !.isRunning = FALSE, !.pendingBarIndex = Null,
               !.tickIndex = 0, !.barTick = 0, !.nextTickTime = 0,
               !.scheduledNodes = IF sch.context THEN {} ELSE sch.scheduledNodes]
  /\ stopped' = TRUE
  /\ lastTick' = Null
  /\ UNCHANGED <<now, notifyTimers, suspended, ticksOut, engineVars, bridgeVars, uiVars>>

\* ---- update(options), WebAudio: applyAt is not read on this path
WebUpdate(options) ==
  /\ ~sch.native
  /\ calls < MaxCalls
  /\ calls' = calls + 1
  /\ LET t1 == setFromOptions(sch, options, "update")
     IN  sch' = IF t1.isRunning /\ t1.context /\ t1.nextTickTime < now
                  THEN [t1 EXCEPT !.nextTickTime = now + secondsPerTickForMeter(t1, t1.meter)]
                  ELSE t1
  /\ UNCHANGED <<now, intervals, notifyTimers, suspended, ticksOut, lastTick, stopped,
                 engineVars, bridgeVars, uiVars>>

\* ---- the host's timers and clock
WebWake(id) ==
  \* setInterval(() => this.scheduleWindow(), LOOKAHEAD_MS)
  /\ id \in intervals
  /\ LET p == scheduleWindow(Pass(sch), now)
     IN  /\ sch' = p.t
         /\ notifyTimers' = p.timers
         /\ ticksOut' = p.ticks
         /\ lastTick' = LastOf(p.ticks, lastTick)
  /\ UNCHANGED <<now, intervals, suspended, stopped, calls, engineVars, bridgeVars, uiVars>>

\* the first audible slot of the beat the next wake schedules first
FirstClickSlot(bm) ==
  CHOOSE i \in 0..(bm.beatSubdiv - 1) :
    bm.beatMask[i + 1] /\ \A k \in 0..(i - 1) : ~bm.beatMask[k + 1]

WebWakeClickThrows(id, tracked) ==
  \* the interval callback runs scheduleWindow and the host throws inside the first
  \* scheduleClick of the wake (createOscillator / createGain: nothing tracked;
  \* osc.start: the node is already in scheduledNodes).  Nothing between
  \* scheduleClick and the callback catches: scheduleTick stops before its
  \* onTick, scheduleWindow before `this.nextTickTime += dt`.
  /\ id \in intervals
  /\ escaped < MaxEscapes
  /\ sch.context /\ sch.isRunning
  /\ sch.nextTickTime < now + SCHEDULE_AHEAD_MS
  /\ LET atTime == sch.nextTickTime
         secondsPerTick == secondsPerTickForMeter(sch, sch.meter)
         p1 == maybeNotifyBarChange(Pass(sch), atTime, now)
         bm == computeBeatSubdivAndMask(p1.t, p1.t.barTick, MAX_SUBDIV_WEB)
     IN  /\ \E i \in 1..bm.beatSubdiv : bm.beatMask[i]
         /\ LET j == FirstClickSlot(bm)
                 e == EmitSlots(p1.t, p1.ticks, atTime, bm, 0, secondsPerTick)
                 at == atTime + (j * secondsPerTick) \div bm.beatSubdiv
                 silent == SubSeq(e.ticks, 1, j)
             IN  /\ sch' = [p1.t EXCEPT
                              !.tickIndex = p1.t.tickIndex + j,
                              !.scheduledNodes = IF tracked THEN p1.t.scheduledNodes \cup {at}
                                                            ELSE p1.t.scheduledNodes]
                 /\ notifyTimers' = p1.timers
                 /\ ticksOut' = silent
                 /\ lastTick' = LastOf(silent, lastTick)
  /\ escaped' = escaped + 1
  /\ UNCHANGED <<now, intervals, suspended, stopped, calls, engineVars, bridgeVars,
                 store, accent, canFill, callerArrays>>

NotifyFires(due) ==
  \* setTimeout(() => { if (!this.isRunning) return; this.notifyBarChange(this.barIndex) })
  /\ due \in notifyTimers
  /\ due <= now
  /\ notifyTimers' = notifyTimers \ {due}
  /\ sch' = IF sch.isRunning THEN notifyBarChange(sch, sch.barIndex) ELSE sch
  /\ UNCHANGED <<now, intervals, suspended, ticksOut, lastTick, stopped, calls,
                 engineVars, bridgeVars, uiVars>>

NodeEnded(node) ==
  \* osc.onended: this.scheduledNodes.delete(osc)
  /\ node \in sch.scheduledNodes
  /\ node + OSCILLATOR_DURATION_MS <= now
  /\ sch' = [sch EXCEPT !.scheduledNodes = sch.scheduledNodes \ {node}]
  /\ UNCHANGED <<now, intervals, notifyTimers, suspended, ticksOut, lastTick, stopped,
                 calls, engineVars, bridgeVars, uiVars>>

Advance ==
  /\ now < MaxNow
  /\ now' = now + LOOKAHEAD_MS
  /\ UNCHANGED <<sch, intervals, notifyTimers, suspended, ticksOut, lastTick, stopped,
                 calls, engineVars, bridgeVars, uiVars>>

\* ---- the options the scheduler's caller passes
WebStartOptions ==
  { [NoOptions EXCEPT !.bpm = 300, !.meter = [n |-> 3, d |-> 8]],
    [NoOptions EXCEPT !.bpm = 300, !.loop = Some(FALSE),
                      !.bars = << BarConfig([n |-> 2, d |-> 8], <<>>, <<>>, <<>>),
                                  BarConfig([n |-> 1, d |-> 8], <<>>, <<>>, <<>>) >>] }

WebUpdateOptions ==
  { [NoOptions EXCEPT !.bpm = 300, !.meter = [n |-> 2, d |-> 8], !.subdiv = Some(2),
                      !.subdivMask = <<TRUE, FALSE>>, !.applyAt = Some("bar")],
    [NoOptions EXCEPT !.bpm = 300, !.meter = [n |-> 3, d |-> 8], !.subdiv = Some(2),
                      !.subdivMask = <<FALSE, FALSE>>, !.beatGuide = TRUE,
                      !.applyAt = Some("now")],
    [NoOptions EXCEPT !.bpm = 300, !.applyAt = Some("now"),
                      !.bars = << BarConfig([n |-> 2, d |-> 8], <<>>, <<>>, <<>>),
                                  BarConfig([n |-> 1, d |-> 8], <<>>, <<>>, <<>>) >>] }

\* ---- the native path: the scheduler in front of the module
\* the params object of native.start / native.update built from the current fields;
\* a key with an undefined value does not reach the module
NativeParams(t, meterN, meterD, groups, ps, pm, applyAt) ==
  LET legacySubdiv == clampInt(t.subdiv, 1, MAX_SUBDIV_NATIVE)
      legacyMask == applyBeatGuideToMask(
                      normalizeSubdivMask(legacySubdiv, t.subdivMask, MAX_SUBDIV_NATIVE),
                      t.beatGuideEnabled)
  IN  EngineMap({"bpm", "meterN", "meterD", "subdiv", "subdivMask"}
                  \cup (IF Len(groups) > 0 THEN {"groups"} ELSE {})
                  \cup (IF Len(ps) > 0 THEN {"pulseSubdivs", "pulseSubdivMasks"} ELSE {})
                  \cup (IF Len(applyAt) > 0 THEN {"applyAt"} ELSE {}),
                t.bpm, meterN, meterD, groups, legacySubdiv, legacyMask, ps, pm,
                OrElse(applyAt, "now"))

NativeParamsFromCurrent(t, applyAt) ==
  LET psN == IF HasPulse(t)
               THEN [i \in 1..Len(t.pulseSubdivs) |->
                       clampInt(t.pulseSubdivs[i], 1, MAX_SUBDIV_NATIVE)]
               ELSE <<>>
      pmN == IF HasPulse(t)
               THEN applyBeatGuideToPulseMasks(
                      normalizePulseMasks(t.meter.n, psN, t.pulseSubdivMasks, MAX_SUBDIV_NATIVE),
                      t.beatGuideEnabled)
               ELSE <<>>
  IN  NativeParams(t, t.meter.n, t.meter.d, t.nativeGroups, psN, pmN, applyAt)

Call(op, map) == [op |-> op, map |-> map]

NativeStart(options) ==
  \* up to `await this.native.start(...)`
  /\ sch.native
  /\ calls < MaxCalls
  /\ calls' = calls + 1
  /\ stopped' = FALSE
  /\ IF sch.isRunning
       THEN UNCHANGED <<sch, callQ, lastTick>>
       ELSE LET t1 == [StartCommon(sch, options) EXCEPT !.nativeTickSub = TRUE,
                                                        !.isRunning = TRUE]
            IN  /\ sch' = t1
                /\ callQ' = Append(callQ, Call("start", NativeParamsFromCurrent(t1, Null)))
                /\ lastTick' = Null
  /\ UNCHANGED <<now, intervals, notifyTimers, suspended, ticksOut, engineVars, retQ, tickQ, uiVars>>

NativeStartResume ==
  \* after the await: notify the starting bar, or the catch
  /\ retQ /= <<>>
  /\ Head(retQ).op = "start"
  /\ retQ' = Tail(retQ)
  /\ sch' = IF Head(retQ).ok
              THEN (IF sch.sequenceEnabled THEN notifyBarChange(sch, sch.barIndex) ELSE sch)
              ELSE [sch EXCEPT !.isRunning = FALSE]
  /\ UNCHANGED <<now, intervals, notifyTimers, suspended, ticksOut, lastTick, stopped, calls,
                 engineVars, callQ, tickQ, uiVars>>

NativeStop ==
  \* up to `await this.native.stop()`
  /\ sch.native
  /\ calls < MaxCalls
  /\ calls' = calls + 1
  /\ sch' = [clearNativeUiTimers(sch) EXCEPT !.lastNotifiedBarIndex = Null,
                                             !.lastBarNotifyTickIndex = -1]
  /\ callQ' = Append(callQ, Call("stop", NoMap))
  /\ lastTick' = Null
  /\ UNCHANGED <<now, intervals, notifyTimers, suspended, ticksOut, stopped, engineVars,
                 retQ, tickQ, uiVars>>

StartInFlight ==
  \/ \E i \in 1..Len(callQ) : callQ[i].op = "start"
  \/ modPc = "starting"
  \/ \E i \in 1..Len(retQ) : retQ[i].op = "start"

NativeStopResume ==
  \* finally { this.isRunning = false; this.pendingBarIndex = null; ... }
  /\ retQ /= <<>>
  /\ Head(retQ).op = "stop"
  /\ retQ' = Tail(retQ)
  /\ sch' = [sch EXCEPT !.isRunning = FALSE, !.pendingBarIndex = Null]
  /\ stopped' = ~StartInFlight
  /\ UNCHANGED <<now, intervals, notifyTimers, suspended, ticksOut, lastTick, calls,
                 engineVars, callQ, tickQ, uiVars>>

NativeUpdate(options) ==
  /\ sch.native
  /\ calls < MaxCalls
  /\ calls' = calls + 1
  /\ LET t1 == setFromOptions(sch, options, "update")
         applyAt == OrElse(options.applyAt, "now")
         queued == t1.sequenceEnabled /\ t1.pendingBarIndex /= Null /\ applyAt = "now"
         timelineUnchanged ==
           computeTimelineSigFromCurrent(sch) = computeTimelineSigFromCurrent(t1)
     IN  IF queued /\ timelineUnchanged
           THEN \* only bpm changed: keep the queued swap and update bpm only
                /\ sch' = t1
                /\ callQ' = Append(callQ, Call("update",
                                [NoMap EXCEPT !.keys = {"bpm", "applyAt"}, !.bpm = t1.bpm,
                                              !.applyAt = "now"]))
           ELSE LET t2 == IF queued THEN [t1 EXCEPT !.pendingBarIndex = Null] ELSE t1
                IN  /\ sch' = t2
                    /\ callQ' = Append(callQ, Call("update",
                                         NativeParamsFromCurrent(t2, Some(applyAt))))
  /\ UNCHANGED <<now, intervals, notifyTimers, suspended, ticksOut, lastTick, stopped,
                 engineVars, retQ, tickQ, uiVars>>

\* queueNativeNextBarUpdateIfNeeded(e): the object after it and the update it sends
queueNativeNextBarUpdateIfNeeded(t, e) ==
  IF ~t.native \/ ~t.sequenceEnabled \/ Len(t.bars) <= 1 \/ t.pendingBarIndex /= Null
       \/ e.barTick /= t.meter.n - 1
    THEN [t |-> t, sent |-> <<>>]
    ELSE LET nextIndex == getNextBarIndex(t)
             nextBar == t.bars[nextIndex + 1]
             nextMeter == normalizeMeter(nextBar.meter)
             psNative == IF Len(nextBar.pulseSubdivs) > 0 /\ nextMeter.d = 4
                           THEN normalizePulseSubdivs(nextMeter.n, nextBar.pulseSubdivs,
                                                      MAX_SUBDIV_NATIVE)
                           ELSE <<>>
             pmNative == IF Len(psNative) > 0
                           THEN applyBeatGuideToPulseMasks(
                                  normalizePulseMasks(nextMeter.n, psNative,
                                                      nextBar.pulseSubdivMasks,
                                                      MAX_SUBDIV_NATIVE),
                                  t.beatGuideEnabled)
                           ELSE <<>>
         IN  [t |-> [t EXCEPT !.pendingBarIndex = Some(nextIndex)],
              sent |-> << Call("update",
                            NativeParams(t, nextMeter.n, nextMeter.d,
                                         normalizeClaveGroups(nextBar.groups, nextMeter.n, 0),
                                         psNative, pmNative, Some("bar"))) >>]

\* a timer of nativeUiTimers with what its closure captured
UiTimer(kind, i, beatKey, e, beatSubdiv, subMs, beatMask, currentBarIndex) ==
  [kind |-> kind, i |-> i, beatKey |-> beatKey, e |-> e, beatSubdiv |-> beatSubdiv,
   subMs |-> subMs, beatMask |-> beatMask, currentBarIndex |-> currentBarIndex]

\* the listener of "onTick"
OnNativeTick ==
  /\ tickQ /= <<>>
  /\ tickQ' = Tail(tickQ)
  /\ LET e == Head(tickQ)
         t1 == IF sch.sequenceEnabled /\ sch.pendingBarIndex /= Null /\ e.barTick = 0
                 THEN LET a == applyActiveBar(sch, Val(sch.pendingBarIndex), TRUE)
                      IN  notifyBarChange([a EXCEPT !.pendingBarIndex = Null], a.barIndex)
                 ELSE sch
         q == queueNativeNextBarUpdateIfNeeded(t1, e)
         t2 == q.t
         bm == computeBeatSubdivAndMask(t2, e.barTick, MAX_SUBDIV_NATIVE)
         subMs == secondsPerTickForMeter(t2, t2.meter) \div Max2(1, bm.beatSubdiv)
         currentBarIndex == IF t2.sequenceEnabled THEN Some(t2.barIndex) ELSE Null
         beatKey == <<OrElse(currentBarIndex, -1), e.barTick>>
         subIndex == (t2.nativeSubIndex + 1) % Max2(1, bm.beatSubdiv)
     IN  /\ callQ' = callQ \o q.sent
         /\ IF t2.nativePrevBeatKey = Some(beatKey)
              THEN \* more than one event for this beat
                   /\ sch' = [clearNativeUiTimers(t2) EXCEPT !.nativeSeesSubticks = TRUE,
                                                            !.nativeSubIndex = subIndex]
                   /\ ticksOut' = << ScheduledTick(e.tickIndex, e.atAudioTimeMs, e.barTick,
                                                   e.isDownbeat /\ subIndex = 0,
                                                   currentBarIndex, subIndex, bm.beatSubdiv,
                                                   bm.beatMask[subIndex + 1]) >>
              ELSE \* new beat boundary
                   /\ sch' = [t2 EXCEPT
                        !.nativePrevBeatKey = Some(beatKey), !.nativeSubIndex = 0,
                        !.nativeSeesSubticks = FALSE,
                        !.nativePendingSynthKey =
                          IF bm.beatSubdiv > 1 THEN Some(beatKey) ELSE Null,
                        !.nativeUiTimers =
                          IF bm.beatSubdiv > 1
                            THEN << UiTimer("check", 0, beatKey, e, bm.beatSubdiv, subMs,
                                            bm.beatMask, currentBarIndex) >>
                            ELSE <<>>]
                   /\ ticksOut' = << ScheduledTick(e.tickIndex, e.atAudioTimeMs, e.barTick,
                                                   e.isDownbeat, currentBarIndex, 0,
                                                   bm.beatSubdiv, bm.beatMask[1]) >>
         /\ lastTick' = Some(ticksOut'[1])
  /\ UNCHANGED <<now, intervals, notifyTimers, suspended, stopped, calls, engineVars, retQ, uiVars>>

CheckTimerFires ==
  \* checkTimer: arms the timers of the slots 1 .. beatSubdiv-1
  /\ sch.nativeUiTimers /= <<>>
  /\ Head(sch.nativeUiTimers).kind = "check"
  /\ LET c == Head(sch.nativeUiTimers)
         go == /\ sch.isRunning
               /\ ~sch.nativeSeesSubticks
               /\ sch.nativePendingSynthKey = Some(c.beatKey)
               /\ sch.nativePrevBeatKey = Some(c.beatKey)
     IN  sch' = [sch EXCEPT !.nativeUiTimers =
                   Tail(sch.nativeUiTimers)
                     \o (IF go THEN [i \in 1..(c.beatSubdiv - 1) |-> [c EXCEPT !.kind = "synth",
                                                                              !.i = i]]
                         ELSE <<>>)]
  /\ UNCHANGED <<now, intervals, notifyTimers, suspended, ticksOut, lastTick, stopped, calls,
                 engineVars, bridgeVars, uiVars>>

SynthTimerFires ==
  \* the timer of slot i: a tick event with tickIndex e.tickIndex * 1000 + i
  /\ sch.nativeUiTimers /= <<>>
  /\ Head(sch.nativeUiTimers).kind = "synth"
  /\ LET c == Head(sch.nativeUiTimers)
         go == sch.isRunning /\ sch.nativePrevBeatKey = Some(c.beatKey)
     IN  /\ sch' = [sch EXCEPT !.nativeUiTimers = Tail(sch.nativeUiTimers)]
         /\ ticksOut' = IF go
                          THEN << ScheduledTick(c.e.tickIndex * 1000 + c.i,
                                                c.e.atAudioTimeMs + c.i * c.subMs, c.e.barTick,
                                                FALSE, c.currentBarIndex, c.i, c.beatSubdiv,
                                                c.beatMask[c.i + 1]) >>
                          ELSE <<>>
         /\ lastTick' = LastOf(ticksOut', lastTick)
  /\ UNCHANGED <<now, intervals, notifyTimers, suspended, stopped, calls, engineVars,
                 bridgeVars, uiVars>>

NativeStartOptions ==
  { [NoOptions EXCEPT !.bpm = 100, !.subdiv = Some(3),
                      !.bars = << BarConfig([n |-> 1, d |-> 4], <<>>, <<>>, <<>>),
                                  BarConfig([n |-> 2, d |-> 4], <<>>, <<>>, <<>>) >>] }

NativeUpdateOptions ==
  { [NoOptions EXCEPT !.bpm = 200, !.subdiv = Some(3), !.applyAt = Some("now"),
                      !.bars = << BarConfig([n |-> 1, d |-> 4], <<>>, <<>>, <<>>),
                                  BarConfig([n |-> 2, d |-> 4], <<>>, <<>>, <<>>) >>] }

\* the module as constructed, nothing in flight
InitModule ==
  /\ running = FALSE
  /\ statusRef = "idle"
  /\ audioTrack = Null
  /\ thread = Null
  /\ active = ActiveDefaults
  /\ pendingParams = Null
  /\ modPc = "idle"
  /\ wk = [w \in Workers |-> NoWorker]
  /\ released = {}
  /\ runs = 0
  /\ lastState = "idle"
  /\ pubSeq = 0
  /\ callQ = <<>>
  /\ retQ = <<>>
  /\ tickQ = <<>>

\* the scheduler as constructed; native: getNativeEngine() found the module
InitScheduler(native) ==
  /\ sch = SchedulerNew(native)
  /\ now = 0
  /\ intervals = {}
  /\ notifyTimers = {}
  /\ suspended = 0
  /\ ticksOut = <<>>
  /\ lastTick = Null
  /\ stopped = FALSE
  /\ calls = 0

\* ------------------------------------------------------------ the meter store
\* useMeterStore: the timeline the interface edits.  A bar is a BarConfig; an absent
\* groups list is <<>>.  The proxies meter / groups / pulseSubdivs /
\* pulseSubdivMasks of the state always are bars[selectedBarIndex] and are not kept.
DEFAULT_SUBDIV == 1

clampIndex(value, maxExclusive) ==
  IF maxExclusive <= 0 THEN 0 ELSE clampInt(value, 0, maxExclusive - 1)

\* a variant that reads the previous counts one place off
storeNormalizePulseSubdivsShifted(n, prev) ==
  [i \in 1..clampInt(n, 1, 64) |->
     clampInt(IF i + 1 <= Len(prev) THEN prev[i + 1] ELSE DEFAULT_SUBDIV, 1, 16)]

\* prev[i] ?? DEFAULT_SUBDIV, clamped
storeNormalizePulseSubdivs(n, prev) ==
  [i \in 1..clampInt(n, 1, 64) |->
     clampInt(IF i <= Len(prev) THEN prev[i] ELSE DEFAULT_SUBDIV, 1, 16)]

\* prev?.[i] ?? true
storeNormalizeMask(subdiv, prev) ==
  [i \in 1..clampInt(subdiv, 1, 16) |-> IF i <= Len(prev) THEN prev[i] ELSE TRUE]

\* a variant that keeps the rows it is given and only fills in the missing ones
storeNormalizePulseMasksKeepsRows(pulseSubdivs, prev) ==
  [i \in 1..Len(pulseSubdivs) |->
     IF i <= Len(prev) THEN prev[i]
     ELSE storeNormalizeMask(clampInt(pulseSubdivs[i], 1, 16), <<>>)]

storeNormalizePulseMasks(pulseSubdivs, prev) ==
  [i \in 1..Len(pulseSubdivs) |->
     storeNormalizeMask(clampInt(pulseSubdivs[i], 1, 16),
                        IF i <= Len(prev) THEN prev[i] ELSE <<>>)]

makeBar(n, d) ==
  LET nextN == clampInt(n, 1, 64)
      nextPulseSubdivs == storeNormalizePulseSubdivs(nextN, <<>>)
  IN  BarConfig([n |-> nextN, d |-> clampInt(d, 1, 64)], <<>>, nextPulseSubdivs,
                storeNormalizePulseMasks(nextPulseSubdivs, <<>>))

normalizeIncomingBar(b) ==
  LET nextMeter == [n |-> clampInt(b.meter.n, 1, 64), d |-> clampInt(b.meter.d, 1, 64)]
      nextPulseSubdivs == storeNormalizePulseSubdivs(nextMeter.n, b.pulseSubdivs)
  IN  BarConfig(nextMeter,
                normalizeGroupsForBar(b.groups, [meter |-> nextMeter,
                                                 pulseSubdivs |-> nextPulseSubdivs]),
                nextPulseSubdivs,
                storeNormalizePulseMasks(nextPulseSubdivs, b.pulseSubdivMasks))

initialBar == makeBar(4, 4)

\* a variant that takes the proxies from the first bar
syncSelectedProxiesFromFirstBar(bars, selectedBarIndex) ==
  LET safeBars == IF Len(bars) > 0 THEN bars ELSE <<initialBar>>
      idx == clampIndex(selectedBarIndex, Len(safeBars))
      bar == safeBars[1]
  IN  [bars |-> safeBars, selectedBarIndex |-> idx, meter |-> bar.meter,
       groups |-> bar.groups, pulseSubdivs |-> bar.pulseSubdivs,
       pulseSubdivMasks |-> bar.pulseSubdivMasks]

\* safeBars[idx] ?? initialBar
syncSelectedProxiesFromBars(bars, selectedBarIndex) ==
  LET safeBars == IF Len(bars) > 0 THEN bars ELSE <<initialBar>>
      idx == clampIndex(selectedBarIndex, Len(safeBars))
      bar == IF idx + 1 \in DOMAIN safeBars THEN safeBars[idx + 1] ELSE initialBar
  IN  [bars |-> safeBars, selectedBarIndex |-> idx, meter |-> bar.meter,
       groups |-> bar.groups, pulseSubdivs |-> bar.pulseSubdivs,
       pulseSubdivMasks |-> bar.pulseSubdivMasks]

\* writeSelectedBar(updater), with next = updater(SelectedBar(state))
SelectedBar(state) == state.bars[clampIndex(state.selectedBarIndex, Len(state.bars)) + 1]

writeSelectedBar(state, next) ==
  LET idx == clampIndex(state.selectedBarIndex, Len(state.bars))
  IN  syncSelectedProxiesFromBars([state.bars EXCEPT ![idx + 1] = next], idx)

\* what an operation of the store leaves alone
storeFrame == <<engineVars, bridgeVars, jsVars, accent, canFill, callerArrays, escaped>>

selectBar(barIndex) ==
  /\ (store' = syncSelectedProxiesFromBars(store.bars, barIndex))
  /\ UNCHANGED storeFrame

addBar ==
  /\ Len(store.bars) < MaxBars
  /\ (store' = syncSelectedProxiesFromBars(Append(store.bars, makeBar(4, 4)), Len(store.bars)))
  /\ UNCHANGED storeFrame

\* cloneBarDeep copies the bar: the copy has the values of the original
duplicateBar(barIndex) ==
  /\ Len(store.bars) < MaxBars
  /\ (store' = syncSelectedProxiesFromBars(
                 Append(store.bars, store.bars[clampIndex(barIndex, Len(store.bars)) + 1]),
                 Len(store.bars)))
  /\ UNCHANGED storeFrame

removeBar(barIndex) ==
  /\ IF Len(store.bars) <= 1 THEN (store' = store)
     ELSE LET idxToRemove == clampIndex(barIndex, Len(store.bars))
              nextBars == [i \in 1..(Len(store.bars) - 1) |->
                             IF i <= idxToRemove THEN store.bars[i] ELSE store.bars[i + 1]]
              sel1 == IF idxToRemove < store.selectedBarIndex
                        THEN store.selectedBarIndex - 1 ELSE store.selectedBarIndex
              sel2 == IF idxToRemove = sel1 THEN Min2(sel1, Len(nextBars) - 1) ELSE sel1
          IN  (store' = syncSelectedProxiesFromBars(nextBars, sel2))
  /\ UNCHANGED storeFrame

replaceTimeline(bars, selectedBarIndex) ==
  /\ LET nextBarsRaw == IF Len(bars) > 0 THEN bars ELSE <<initialBar>>
         nextBars == [i \in 1..Len(nextBarsRaw) |-> normalizeIncomingBar(nextBarsRaw[i])]
     IN  (store' = syncSelectedProxiesFromBars(nextBars, OrElse(selectedBarIndex, 0)))
  /\ UNCHANGED storeFrame

setMeter(n, d) ==
  /\ LET bar == SelectedBar(store)
         nextMeter == [n |-> clampInt(n, 1, 64), d |-> clampInt(d, 1, 64)]
         nextPulseSubdivs == storeNormalizePulseSubdivs(nextMeter.n, bar.pulseSubdivs)
     IN  (store' = writeSelectedBar(store,
           BarConfig(nextMeter,
                     normalizeGroupsForBar(bar.groups, [meter |-> nextMeter,
                                                        pulseSubdivs |-> nextPulseSubdivs]),
                     nextPulseSubdivs,
                     storeNormalizePulseMasks(nextPulseSubdivs, bar.pulseSubdivMasks))))
  /\ UNCHANGED storeFrame

setGroups(groups) ==
  /\ LET bar == SelectedBar(store)
     IN  (store' = writeSelectedBar(store,
           [bar EXCEPT !.groups = normalizeGroupsForBar(groups, bar)]))
  /\ UNCHANGED storeFrame

clearGroups ==
  /\ (store' = writeSelectedBar(store, [SelectedBar(store) EXCEPT !.groups = <<>>]))
  /\ UNCHANGED storeFrame

\* the three setters of the slot counts end the same way: masks and groups are
\* normalised against the new counts
WithPulseSubdivs(bar, nextSubdivs) ==
  BarConfig(bar.meter,
            normalizeGroupsForBar(bar.groups, [meter |-> bar.meter,
                                               pulseSubdivs |-> nextSubdivs]),
            nextSubdivs, storeNormalizePulseMasks(nextSubdivs, bar.pulseSubdivMasks))

setPulseSubdiv(beatIndex, subdiv) ==
  /\ LET bar == SelectedBar(store)
         idx == clampInt(beatIndex, 0, Max2(0, bar.meter.n - 1))
     IN  (store' = writeSelectedBar(store, WithPulseSubdivs(bar,
           [i \in 1..Len(bar.pulseSubdivs) |->
              IF i = idx + 1 THEN clampInt(subdiv, 1, 16) ELSE bar.pulseSubdivs[i]])))
  /\ UNCHANGED storeFrame

setAllPulseSubdivs(subdiv) ==
  /\ LET bar == SelectedBar(store)
     IN  (store' = writeSelectedBar(store, WithPulseSubdivs(bar,
           [i \in 1..bar.meter.n |-> clampInt(subdiv, 1, 16)])))
  /\ UNCHANGED storeFrame

setPulseSubdivs(subdivs) ==
  /\ LET bar == SelectedBar(store)
     IN  (store' = writeSelectedBar(store, WithPulseSubdivs(bar,
           storeNormalizePulseSubdivs(bar.meter.n, subdivs))))
  /\ UNCHANGED storeFrame

setPulseSubdivMask(beatIndex, mask) ==
  /\ LET bar == SelectedBar(store)
         idx == clampInt(beatIndex, 0, Max2(0, bar.meter.n - 1))
         subdiv == clampInt(IF idx < Len(bar.pulseSubdivs) THEN bar.pulseSubdivs[idx + 1] ELSE 1,
                            1, 16)
     IN  (store' = writeSelectedBar(store,
           [bar EXCEPT !.pulseSubdivMasks =
              [i \in 1..Len(bar.pulseSubdivMasks) |->
                 IF i = idx + 1 THEN storeNormalizeMask(subdiv, mask)
                 ELSE bar.pulseSubdivMasks[i]]]))
  /\ UNCHANGED storeFrame

togglePulseSubdivMaskSlot(beatIndex, slotIndex) ==
  /\ LET bar == SelectedBar(store)
         idx == clampInt(beatIndex, 0, Max2(0, bar.meter.n - 1))
         subdiv == clampInt(IF idx < Len(bar.pulseSubdivs) THEN bar.pulseSubdivs[idx + 1] ELSE 1,
                            1, 16)
         slot == clampInt(slotIndex, 0, Max2(0, subdiv - 1))
         prevMask == storeNormalizeMask(subdiv, IF idx < Len(bar.pulseSubdivMasks)
                                                  THEN bar.pulseSubdivMasks[idx + 1] ELSE <<>>)
     IN  (store' = writeSelectedBar(store,
           [bar EXCEPT !.pulseSubdivMasks =
              [i \in 1..Len(bar.pulseSubdivMasks) |->
                 IF i = idx + 1
                   THEN [j \in 1..Len(prevMask) |-> IF j = slot + 1 THEN ~prevMask[j]
                                                    ELSE prevMask[j]]
                   ELSE bar.pulseSubdivMasks[i]]]))
  /\ UNCHANGED storeFrame

InitUi ==
  /\ store = [bars |-> <<initialBar>>, selectedBarIndex |-> 0, meter |-> initialBar.meter,
              groups |-> initialBar.groups, pulseSubdivs |-> initialBar.pulseSubdivs,
              pulseSubdivMasks |-> initialBar.pulseSubdivMasks]
  /\ accent = Null
  /\ canFill = Null
  /\ callerArrays = [groups |-> <<2>>, subdivMask |-> <<TRUE>>, pulseSubdivs |-> <<>>,
                     pulseSubdivMasks |-> <<>>, bars |-> <<>>]
  /\ escaped = 0

InitEngine == InitModule /\ InitScheduler(FALSE) /\ InitUi

\* ---- SpecEngine: a caller drives the module directly
Start == EStartQueue \/ EStartBegin \/ EStartOk \/ EStartThrows

Stop == EStopIdle \/ EStopBegin \/ EStopEnd

Update == EUpdateIdle \/ EUpdateQueue

Worker ==
  \E w \in Workers :
    WLoop(w) \/ WRead(w) \/ WApply(w) \/ WTick(w) \/ WWriteOk(w) \/ WWriteFail(w)
      \/ WFailSet(w) \/ WExit(w)

NextEngine == Start \/ Stop \/ Update \/ Worker

SpecEngine == InitEngine /\ [][NextEngine]_vars

\* ---- SpecSnapshot: one run of the module, with applyParamsNow on the audio
\* thread taken as the separate writes it is.  While a worker is at "applying"
\* it has written bpm, meterN, meterD and groups and not yet subdiv, subdivMask,
\* pulseSubdivs and pulseSubdivMasks; `active` holds the values before the swap
\* until the last write, and ActiveFields is what the @Volatile fields hold.
ActiveFields ==
  IF \E w \in Workers : wk[w].pc = "applying"
    THEN LET w == CHOOSE v \in Workers : wk[v].pc = "applying"
             p == applyParamsNow(Val(wk[w].held))
         IN  [active EXCEPT !.bpm = p.bpm, !.meterN = p.meterN, !.meterD = p.meterD,
                            !.groups = p.groups]
    ELSE active

WApplyMeter(w) ==
  \* pendingParams.set(null); applyParamsNow: bpm = ..; meterN = ..; meterD = ..; groups = ..
  /\ wk[w].pc = "apply"
  /\ pendingParams' = Null
  /\ wk' = [wk EXCEPT ![w].pc = "applying"]
  /\ UNCHANGED <<running, statusRef, audioTrack, thread, active, modPc, released, runs,
                 lastState, pubSeq, bridgeVars, jsVars, uiVars>>

WApplyRest(w) ==
  \* subdiv = ..; subdivMask = ..; pulseSubdivs = ..; pulseSubdivMasks = ..; and the
  \* rest of the `if (shouldApply)` block
  /\ wk[w].pc = "applying"
  /\ LET pending == Val(wk[w].held) IN
     /\ active' = applyParamsNow(pending)
     /\ wk' = [wk EXCEPT
          ![w].pc = "tick",
          ![w].held = Null,
          ![w].groupStarts = computeGroupStarts(active'.meterN, active'.groups),
          ![w].barBeatIndex = BarBeatAfterApply(pending.applyAt, wk[w].barBeatIndex,
                                                active'.meterN),
          ![w].currentBeatSubdiv = 1,
          ![w].currentBeatMask = <<TRUE>>]
  /\ UNCHANGED <<running, statusRef, audioTrack, thread, pendingParams, modPc, released,
                 runs, lastState, pubSeq, bridgeVars, jsVars, uiVars>>

EUpdateFields ==
  \* update() while running: parseUpdateParams reads the fields as they are
  /\ modPc = "idle"
  /\ running
  /\ pubSeq < MaxUpdates
  /\ \E c \in Calls("update") :
       pendingParams' =
         Some([SafeApplyAt(parseUpdateParams(c.map, ActiveFields)) EXCEPT !.seq = pubSeq + 1])
  /\ pubSeq' = pubSeq + 1
  /\ lastState' = "running"
  /\ callQ' = Taken
  /\ UNCHANGED <<running, statusRef, audioTrack, thread, active, modPc, wk, released,
                 runs, retQ, tickQ, jsVars, uiVars>>

NextSnapshot ==
  \/ EStartBegin \/ EStartOk \/ EStartQueue
  \/ EUpdateFields
  \/ \E w \in Workers :
       WLoop(w) \/ WRead(w) \/ WApplyMeter(w) \/ WApplyRest(w) \/ WTick(w) \/ WWriteOk(w)

SpecSnapshot == InitEngine /\ [][NextSnapshot]_vars

\* ---- SpecWeb: the scheduler on the WebAudio path (this.native = null)
InitWeb == InitModule /\ InitScheduler(FALSE) /\ InitUi

NextWeb ==
  \/ \E o \in WebStartOptions : WebStart(o)
  \/ WebStartResume
  \/ WebStartNoContext
  \/ WebStop
  \/ \E o \in WebUpdateOptions : WebUpdate(o)
  \/ \E id \in intervals : WebWake(id)
  \/ \E due \in notifyTimers : NotifyFires(due)
  \/ \E node \in sch.scheduledNodes : NodeEnded(node)
  \/ Advance

SpecWeb == InitWeb /\ [][NextWeb]_vars

\* ---- SpecHostFault: the WebAudio path on a host whose audio calls can throw
NextHostFault ==
  \/ NextWeb
  \/ \E id \in intervals : \E tracked \in BOOLEAN : WebWakeClickThrows(id, tracked)

SpecHostFault == InitWeb /\ [][NextHostFault]_vars

\* ---- SpecConfig: the scheduler configured by start / update on a host that has
\* no audio context (start fails after it has taken its options)
GroupLists == { <<>>, <<2, 2>>, <<3, 3>>, <<1, 3>>, <<2, 9>>, <<2, 3>>, <<4>> }

ConfigOptions ==
  { [NoOptions EXCEPT !.bpm = b, !.meter = m, !.groups = g, !.subdiv = sd,
                      !.pulseSubdivs = ps] :
      b \in {120}, m \in { [n |-> 4, d |-> 4], [n |-> 2, d |-> 4], [n |-> 4, d |-> 8] },
      g \in GroupLists, sd \in {Null, Some(3)}, ps \in { <<>>, <<3, 3>> } }
  \cup
  { [NoOptions EXCEPT !.bpm = b,
                      !.bars = << BarConfig(m, g, <<>>, <<>>),
                                  BarConfig([n |-> 2, d |-> 4], g, <<3, 3>>, <<>>) >>] :
      b \in {20, 120, 400}, m \in { [n |-> 4, d |-> 4], [n |-> 4, d |-> 8] },
      g \in GroupLists }
  \cup
  { [NoOptions EXCEPT !.beatGuide = bg, !.loop = lp,
                      !.bars = << BarConfig([n |-> 2, d |-> 4], <<>>, ps, pm) >>] :
      bg \in BOOLEAN, lp \in {Null, Some(FALSE)}, ps \in { <<2, 1>>, <<1, 20>> },
      pm \in { <<>>, << <<TRUE, FALSE>>, <<FALSE, TRUE>> >> } }

NextConfig ==
  \/ \E o \in ConfigOptions : WebStart(o)
  \/ WebStartNoContext
  \/ \E o \in ConfigOptions : WebUpdate(o)

SpecConfig == InitWeb /\ [][NextConfig]_vars

\* ---- SpecStore: the interface edits the timeline
IncomingBars ==
  { BarConfig([n |-> 2, d |-> 4], <<2, 2>>, <<3, 0, 5>>, << <<FALSE>>, <<TRUE, FALSE>> >>),
    BarConfig([n |-> 0, d |-> 70], <<2, 2>>, <<20>>, <<>>) }

IncomingTimelines ==
  { <<>> } \cup { <<b>> : b \in IncomingBars }
    \cup { tl \in IncomingBars \X IncomingBars : tl[1] /= tl[2] }

NextStore ==
  \/ \E i \in {-1, 2} : selectBar(i)
  \/ addBar
  \/ duplicateBar(2)
  \/ removeBar(-1)
  \/ \E bars \in IncomingTimelines : replaceTimeline(bars, Null)
  \/ replaceTimeline(<<>>, Some(5))
  \/ \E n \in {0, 2} : setMeter(n, 4)
  \/ \E g \in { <<2>>, <<2, 9>> } : setGroups(g)
  \/ clearGroups
  \/ setPulseSubdiv(5, 17)
  \/ setAllPulseSubdivs(0)
  \/ setPulseSubdivs(<<20>>)
  \/ setPulseSubdivMask(0, <<FALSE>>)
  \/ togglePulseSubdivMaskSlot(9, 20)

SpecStore == InitWeb /\ [][NextStore]_vars

\* ---- utils/rhythm/deriveAccentPerTick
\* A JavaScript number of a groups list: fin is Number.isFinite, h is twice the
\* value (an odd h is a number with a half).
Num(i) == [fin |-> TRUE, h |-> 2 * i]
Half(i) == [fin |-> TRUE, h |-> 2 * i + 1]
NaN == [fin |-> FALSE, h |-> 0]

COMPOUND_TOPS == {6, 9, 12}
MIN_GROUP_SIZE_DEFAULT == 2
MAX_GROUP_SIZE_DEFAULT == 8

isPositiveInt(n) == n.fin /\ n.h % 2 = 0 /\ n.h > 0

\* the sizes of a list of integers
Sizes(groups) == [i \in 1..Len(groups) |-> groups[i].h \div 2]

\* a variant that checks the sum only
validateTickGroupsSumOnly(groups, ticksPerBar, minGroupSize, maxGroupSize) ==
  /\ Len(groups) > 0
  /\ \A i \in 1..Len(groups) : groups[i].fin /\ groups[i].h % 2 = 0
  /\ SumSeq(Sizes(groups)) = ticksPerBar

\* validateTickGroups(...).ok
validateTickGroups(groups, ticksPerBar, minGroupSize, maxGroupSize) ==
  /\ Len(groups) > 0
  /\ \A i \in 1..Len(groups) :
       /\ isPositiveInt(groups[i])
       /\ ~(groups[i].h \div 2 < minGroupSize \/ groups[i].h \div 2 > maxGroupSize)
  /\ SumSeq(Sizes(groups)) = ticksPerBar

\* a variant that never reads options.ticksPerBar
accentTicksPerBarOfMeter(meter, options) == Max2(0, meter.n)

\* const ticksPerBar = ... Math.max(0, Math.floor(options.ticksPerBar | meter.n))
accentTicksPerBar(meter, options) ==
  IF options.ticksPerBar /= Null THEN Max2(0, Val(options.ticksPerBar)) ELSE Max2(0, meter.n)

\* Array.from({ length: ticksPerBar }, () => "WEAK"); accent[0] = "BAR"
baseAccent(ticksPerBar) == [i \in 1..ticksPerBar |-> IF i = 1 THEN "BAR" ELSE "WEAK"]

\* the loop over the validated groups: accent[start] = "GROUP" for i > 0
RECURSIVE markGroupStarts(_, _, _, _)
markGroupStarts(levels, sizes, i, cursor) ==
  IF i >= Len(sizes) THEN levels
  ELSE markGroupStarts(IF i > 0 /\ cursor < Len(levels)
                         THEN [levels EXCEPT ![cursor + 1] = "GROUP"] ELSE levels,
                       sizes, i + 1, cursor + sizes[i + 1])

\* a variant whose cursor is advanced before the start is marked
groupAccentAtEnds(sizes, ticksPerBar) ==
  markGroupStarts(baseAccent(ticksPerBar), sizes, 0, 1)

groupAccent(sizes, ticksPerBar) ==
  markGroupStarts(baseAccent(ticksPerBar), sizes, 0, 0)

\* a variant that marks the compound groups whatever the denominator
defaultAccentAnyDenominator(meter, ticksPerBar) ==
  [i \in 1..ticksPerBar |->
     IF i = 1 THEN "BAR"
     ELSE IF ticksPerBar \in COMPOUND_TOPS /\ (i - 1) % 3 = 0 THEN "GROUP" ELSE "WEAK"]

\* the default compound behaviour: for (let i = 3; i < ticksPerBar; i += 3)
defaultAccent(meter, ticksPerBar) ==
  [i \in 1..ticksPerBar |->
     IF i = 1 THEN "BAR"
     ELSE IF meter.d = 8 /\ ticksPerBar \in COMPOUND_TOPS /\ (i - 1) % 3 = 0
            THEN "GROUP" ELSE "WEAK"]

\* deriveAccentPerTick(meter, groups, options) with validateGroups, minGroupSize
\* and maxGroupSize at their defaults (no caller passes them); groups <<>> is an
\* absent or empty list
deriveAccentPerTick(meter, groups, options) ==
  LET ticksPerBar == accentTicksPerBar(meter, options)
  IN  IF ticksPerBar = 0 THEN <<>>
      ELSE IF Len(groups) > 0
                /\ validateTickGroups(groups, ticksPerBar, MIN_GROUP_SIZE_DEFAULT,
                                      MAX_GROUP_SIZE_DEFAULT)
             THEN groupAccent(Sizes(groups), ticksPerBar)
             ELSE defaultAccent(meter, ticksPerBar)

DeriveAccent(meter, groups, options) ==
  /\ accent' = Some([meter |-> meter, groups |-> groups, options |-> options,
                     result |-> deriveAccentPerTick(meter, groups, options)])
  /\ UNCHANGED <<engineVars, bridgeVars, jsVars, store, canFill, callerArrays, escaped>>

AccentMeters == { [n |-> n, d |-> d] : n \in -1..MaxTop, d \in {4, 8} }

NumList(sizes) == [i \in 1..Len(sizes) |-> Num(sizes[i])]

AccentGroups ==
  { <<>>, NumList(<<3, 3, 3, 2>>), NumList(<<5, 7>>), NumList(<<4, 2>>), NumList(<<3, 3>>),
    NumList(<<9, 2>>), NumList(<<1, 5>>), NumList(<<6>>), NumList(<<8, 8, 4>>),
    <<Num(3), Half(2), Half(0)>>, <<Num(3), NaN>>, <<Num(-3), Num(9)>> }

AccentOptions == { [ticksPerBar |-> tpb] : tpb \in {Null, Some(0), Some(-2), Some(6), Some(20)} }

NextAccent ==
  \E meter \in AccentMeters : \E groups \in AccentGroups : \E options \in AccentOptions :
    DeriveAccent(meter, groups, options)

SpecAccent == InitWeb /\ [][NextAccent]_vars

\* ---- the scheduler's accent tables and getAccentForSubTick
NoAccentOptions == [ticksPerBar |-> Null]

\* this.accentLevelsBeat as recomputeAccentModel last assigned it
accentLevelsBeat(t) ==
  IF t.accentMode = "pool"
    THEN deriveAccentPerTick(t.meter, <<>>, NoAccentOptions)
    ELSE deriveAccentPerTick(t.meter, NumList(t.groups), NoAccentOptions)

\* this.accentLevelsPool as recomputeAccentModel last assigned it
accentLevelsPool(t) ==
  IF t.accentMode = "pool"
    THEN deriveAccentPerTick(t.meter, NumList(t.groups),
                             [ticksPerBar |-> Some(t.poolTicksPerBar)])
    ELSE <<>>

computePoolStartForBeat(t, barTick, maxSubdiv) ==
  LET n == clampInt(barTick, 0, Max2(0, t.meter.n))
  IN  SumSeq([i \in 1..n |->
                IF HasPulse(t) THEN clampInt(t.pulseSubdivs[i], 1, maxSubdiv)
                ELSE clampInt(t.subdiv, 1, maxSubdiv)])

\* levels[idx] ?? "WEAK"
LevelAt(levels, idx) == IF idx + 1 \in DOMAIN levels THEN levels[idx + 1] ELSE "WEAK"

getAccentForSubTick(t, barTick, subIndex, maxSubdiv) ==
  IF t.accentMode /= "pool"
    THEN (IF subIndex = 0 THEN LevelAt(accentLevelsBeat(t), barTick) ELSE "WEAK")
    ELSE LevelAt(accentLevelsPool(t),
                 computePoolStartForBeat(t, barTick, maxSubdiv) + clampInt(subIndex, 0, 99999))

\* ---- utils/rhythm/buildCanFill: the subset-sum reachability table
\* entries Len(table) .. total appended in order; entry t is reachable when
\* some usable size leads to it from a reachable entry
RECURSIVE fillTable(_, _, _)
fillTable(table, total, usable) ==
  IF Len(table) > total THEN table
  ELSE LET t == Len(table)
       IN  fillTable(Append(table, \E size \in usable : size <= t /\ table[t - size + 1]),
                     total, usable)

\* a variant that takes a size below 0 for its magnitude
buildCanFillMagnitudes(total, sizes) ==
  fillTable(<<TRUE>>, total,
            { IF sizes[i] < 0 THEN -sizes[i] ELSE sizes[i] : i \in 1..Len(sizes) } \ {0})

buildCanFill(total, sizes) ==
  fillTable(<<TRUE>>, total, { sizes[i] : i \in 1..Len(sizes) } \cap 1..total)

\* ClaveModal: const canFill = useMemo(() => buildCanFill(meter.n, allowedSizes))
BuildCanFill(total, sizes) ==
  /\ canFill' = Some([total |-> total, sizes |-> sizes, result |-> buildCanFill(total, sizes)])
  /\ UNCHANGED <<engineVars, bridgeVars, jsVars, store, accent, callerArrays, escaped>>

CanFillSizes ==
  LET S == {-1, 0, 2, 3}
  IN  { <<>> } \cup { <<a>> : a \in S } \cup { <<a, b>> : a \in S, b \in S }
        \cup { <<a, b, c>> : a \in S, b \in S, c \in S } \cup { <<2, 3, 4, 5>> }

NextCanFill == \E total \in 0..MaxTotal : \E sizes \in CanFillSizes : BuildCanFill(total, sizes)

SpecCanFill == InitWeb /\ [][NextCanFill]_vars

\* ---- SpecCaller: a caller that keeps the arrays it hands over, and writes to them
\* the options a direct caller of update() builds from its arrays
DirectOptions ==
  [NoOptions EXCEPT !.meter = [n |-> 2, d |-> 4], !.groups = callerArrays.groups,
                    !.subdivMask = callerArrays.subdivMask,
                    !.pulseSubdivs = callerArrays.pulseSubdivs,
                    !.pulseSubdivMasks = callerArrays.pulseSubdivMasks,
                    !.bars = callerArrays.bars, !.arrays = "caller"]

\* useMetronomeAudio: the update effect passes snapshots (slice / cloneBars)
HookOptions == [DirectOptions EXCEPT !.applyAt = Some("now"), !.arrays = "snapshot"]

CallerValues(f) ==
  CASE f = "groups" -> { <<2>>, <<1, 1>> }
    [] f = "subdivMask" -> { <<TRUE>>, <<FALSE>> }
    [] f = "pulseSubdivs" -> { <<>>, <<3, 3>> }
    [] f = "pulseSubdivMasks" -> { <<>>, << <<FALSE>> >> }
    [] f = "bars" -> { <<>>, << BarConfig([n |-> 2, d |-> 4], <<2>>, <<>>, <<>>) >> }

\* the caller writes v into its array f in place: every holder of that array
\* object sees the new contents
CallerMutates(f, v) ==
  /\ v /= callerArrays[f]
  /\ callerArrays' = [callerArrays EXCEPT ![f] = v]
  /\ sch' = IF sch.arrays[f] = "caller" THEN [sch EXCEPT ![f] = v] ELSE sch
  /\ UNCHANGED <<now, intervals, notifyTimers, suspended, ticksOut, lastTick, stopped,
                 calls, engineVars, bridgeVars, store, accent, canFill, escaped>>

NextCaller ==
  \/ \E o \in {DirectOptions} : WebUpdate(o)
  \/ \E o \in {HookOptions} : WebUpdate(o)
  \/ \E f \in ArrayFields : \E v \in CallerValues(f) : CallerMutates(f, v)

SpecCaller == InitWeb /\ [][NextCaller]_vars

\* ---- SpecNative: the scheduler with this.native set, in front of the module
InitNative == InitModule /\ InitScheduler(TRUE) /\ InitUi

NextNative ==
  \/ \E o \in NativeStartOptions : NativeStart(o)
  \/ NativeStartResume
  \/ NativeStop
  \/ NativeStopResume
  \/ \E o \in NativeUpdateOptions : NativeUpdate(o)
  \/ OnNativeTick
  \/ CheckTimerFires
  \/ SynthTimerFires
  \/ NextEngine

SpecNative == InitNative /\ [][NextNative]_vars

\* ---- SpecWake: the pull scheduler with the loop of scheduleWindow taken one
\* beat at a time; nothing else of the scheduler runs while a call is in its loop
WakeOptions ==
  { [NoOptions EXCEPT !.bpm = 300, !.meter = [n |-> 3, d |-> 8]],
    [NoOptions EXCEPT !.bpm = 300, !.meter = [n |-> 2, d |-> 128]],
    [NoOptions EXCEPT !.bpm = 0 - 100, !.meter = [n |-> 2, d |-> 0]] }

Window(horizon, caller) == Some([horizon |-> horizon, caller |-> caller])

WakeStartResume ==
  \* the rest of start() down to the loop of its scheduleWindow()
  /\ suspended > 0
  /\ sch.window = Null
  /\ suspended' = suspended - 1
  /\ LET t1 == [sch EXCEPT !.context = TRUE, !.isRunning = TRUE, !.tickIndex = 0,
                           !.barTick = 0, !.nextTickTime = now + START_DELAY_MS]
         t2 == IF t1.sequenceEnabled THEN notifyBarChange(t1, t1.barIndex) ELSE t1
     IN  sch' = [t2 EXCEPT !.window = Window(now + SCHEDULE_AHEAD_MS, "start")]
  /\ ticksOut' = <<>>
  /\ UNCHANGED <<now, intervals, notifyTimers, lastTick, stopped, calls, engineVars,
                 bridgeVars, uiVars>>

WakeTimer(id) ==
  \* the interval callback enters scheduleWindow
  /\ id \in intervals
  /\ sch.window = Null
  /\ sch' = IF ~sch.context \/ ~sch.isRunning THEN sch
            ELSE [sch EXCEPT !.window = Window(now + SCHEDULE_AHEAD_MS, "timer")]
  /\ ticksOut' = <<>>
  /\ UNCHANGED <<now, intervals, notifyTimers, suspended, lastTick, stopped, calls,
                 engineVars, bridgeVars, uiVars>>

WakeBeat ==
  \* one turn of `while (this.nextTickTime < horizon)`; a loop that runs away from
  \* the horizon is followed until nextTickTime is negative
  /\ sch.window /= Null
  /\ sch.nextTickTime < Val(sch.window).horizon
  /\ sch.nextTickTime >= 0
  /\ LET p == scheduleTick(Pass(sch), sch.nextTickTime, now)
     IN  /\ sch' = p.t
         /\ notifyTimers' = p.timers
         /\ ticksOut' = p.ticks
         /\ lastTick' = LastOf(p.ticks, lastTick)
  /\ UNCHANGED <<now, intervals, suspended, stopped, calls, engineVars, bridgeVars, uiVars>>

WakeReturn ==
  \* the loop condition is false: scheduleWindow returns; start() sets its interval
  /\ sch.window /= Null
  /\ sch.nextTickTime >= Val(sch.window).horizon
  /\ IF Val(sch.window).caller = "start"
       THEN /\ sch' = [sch EXCEPT !.window = Null, !.timerId = Some(FreshTimer)]
            /\ intervals' = intervals \cup {FreshTimer}
       ELSE /\ sch' = [sch EXCEPT !.window = Null]
            /\ UNCHANGED intervals
  /\ ticksOut' = <<>>
  /\ UNCHANGED <<now, notifyTimers, suspended, lastTick, stopped, calls, engineVars,
                 bridgeVars, uiVars>>

NextWake ==
  \/ \E o \in WakeOptions : sch.window = Null /\ WebStart(o)
  \/ WakeStartResume
  \/ \E o \in WakeOptions : sch.window = Null /\ WebUpdate(o)
  \/ \E id \in 1..(MaxCalls + 1) : WakeTimer(id)
  \/ WakeBeat
  \/ WakeReturn
  \/ sch.window = Null /\ Advance

SpecWake == InitWeb /\ [][NextWake]_vars

\* ---- SpecClick: the native path with bars whose accents are not all weak: a
\* compound meter without groups, a grouped meter with one and with two slots a
\* beat, a bar of one beat, and an update without groups
ClickStartOptions ==
  { [NoOptions EXCEPT !.bpm = 100, !.meter = [n |-> 6, d |-> 8]],
    [NoOptions EXCEPT !.bpm = 100, !.meter = [n |-> 5, d |-> 8], !.groups = <<3, 2>>],
    [NoOptions EXCEPT !.bpm = 100, !.meter = [n |-> 5, d |-> 8], !.subdiv = Some(2),
                      !.groups = <<3, 2>>],
    [NoOptions EXCEPT !.bpm = 100, !.meter = [n |-> 1, d |-> 4], !.subdiv = Some(3)] }

ClickUpdateOptions ==
  { [NoOptions EXCEPT !.bpm = 100, !.meter = [n |-> 5, d |-> 8], !.applyAt = Some("now")] }

NextClick ==
  \/ \E o \in ClickStartOptions : NativeStart(o)
  \/ NativeStartResume
  \/ \E o \in ClickUpdateOptions : NativeUpdate(o)
  \/ OnNativeTick
  \/ CheckTimerFires
  \/ SynthTimerFires
  \/ EStartBegin
  \/ EStartOk
  \/ EUpdateQueue
  \/ \E w \in Workers : WLoop(w) \/ WRead(w) \/ WApply(w) \/ WTick(w) \/ WWriteOk(w)

SpecClick == InitNative /\ [][NextClick]_vars

\* ======================================================== claims, engine
\* C4: of two updates A then B published while the engine runs, A's effects are
\* never applied after B's: an update a worker applies is not older than the update
\* whose values are in effect.
C4_AppliedInPublishedOrder ==
  [][\A w \in Workers :
       (wk[w].pc = "apply" /\ wk'[w].pc = "tick") => Val(wk[w].held).seq >= active.seq]_vars

\* C7: apart from entering and leaving Error, the status changes only along
\* Idle -> Starting -> Running -> Stopping -> Idle.
StatusCycle ==
  { <<"idle", "starting">>, <<"starting", "running">>, <<"running", "stopping">>,
    <<"stopping", "idle">> }

C7_StatusCycleOnly ==
  [][(statusRef' /= statusRef /\ statusRef /= "error" /\ statusRef' /= "error")
       => <<statusRef, statusRef'>> \in StatusCycle]_vars

\* C8: a start() that fails because the host gives no output device creates no
\* worker and leaves the engine not running with status Idle, the last state event
\* being the Error (or the Idle that follows it).
C8_FailedStartEndsIdle ==
  [][EStartThrows =>
       (/\ ~running'
        /\ runs' = runs
        /\ statusRef' = "idle"
        /\ lastState' \in {"error", "idle"})]_vars

\* C9: a worker whose buffer write was rejected never enters the loop body again:
\* it emits no further tick and writes no further buffer.
C9_FailedWorkerLeaves ==
  \A w \in Workers : wk[w].failed => wk[w].pc \in {"failed", "loop", "exit", "done"}

\* C10: when stop() returns the status is Idle, the pending slot is empty and
\* every AudioTrack the module created has been released.
C10_StopReleasesAll ==
  [][(EStopIdle \/ EStopEnd) =>
       (/\ statusRef' = "idle"
        /\ pendingParams' = Null
        /\ audioTrack' = Null
        /\ \A t \in 1..runs' : t \in released')]_vars

\* C11: start(config) while the engine runs behaves as update(config): the
\* configuration is published for the boundary the caller names, NextBar when
\* the caller names none, and no second worker is created.
C11_StartWhileRunningIsUpdate ==
  [][EStartQueue =>
       (/\ runs' = runs
        /\ wk' = wk
        /\ pendingParams' /= Null
        /\ \E c \in Calls("start") :
             Val(pendingParams').applyAt =
               IF Has(c.map, "applyAt") THEN c.map.applyAt ELSE "bar")]_vars

\* the update the module publishes for the call c
Published(c) == [SafeApplyAt(parseUpdateParams(c.map, active)) EXCEPT !.seq = pubSeq + 1]

\* C15: a click is produced for slot i exactly when the stored mask marks it
\* audible: the push synthesizer keeps a mask of the beat's length as the caller
\* stored it, a mask whose every slot is silent included.
C15_StoredMaskDecidesClicks ==
  [][EUpdateQueue =>
       \A c \in Calls("update") :
         (/\ pendingParams' = Some(Published(c))
          /\ Has(c.map, "subdiv") /\ Has(c.map, "subdivMask")
          /\ Len(c.map.subdivMask) = clampIntNative(c.map.subdiv, 1, 8))
           => Val(pendingParams').subdivMask = c.map.subdivMask]_vars

\* C17: an update published with boundary Now takes effect at the first beat
\* boundary after it is published: at the beat boundary where a worker swaps the
\* active values, a Now update that is in the pending slot is the one in effect
\* afterwards.
C17_NowAppliedAtNextBeat ==
  [][\A w \in Workers :
       (/\ wk[w].pc = "apply" /\ wk'[w].pc = "tick"
        /\ pendingParams /= Null
        /\ Val(pendingParams).applyAt = "now")
         => active'.seq = Val(pendingParams).seq]_vars

\* C31: an update published to the pending slot while a worker runs leaves the
\* slot only by being applied: when a worker clears the slot, the update it
\* removes is the one whose values are active afterwards, also when that update
\* was published between the worker's read of the slot and its clearing.
C31_PublishedNotLost ==
  [][(/\ pendingParams /= Null
      /\ pendingParams' = Null
      /\ \E w \in Workers : wk[w].pc = "apply" /\ wk'[w].pc = "tick")
       => active'.seq = Val(pendingParams).seq]_vars

\* the values of a snapshot, without the number of the update they come from
SnapshotValues(a) == [a EXCEPT !.seq = 0]

\* C32: the active values change as one: what update() reads to fill the fields
\* a partial update omits is the snapshot before a swap or the snapshot after
\* it, never some fields of one and some of the other.
C32_SnapshotNotMixed ==
  [][EUpdateFields =>
       \A w \in Workers :
         wk[w].pc = "applying" =>
           SnapshotValues(ActiveFields)
             \in {SnapshotValues(active), SnapshotValues(applyParamsNow(Val(wk[w].held)))}]_vars

\* C40: after any operations of the meter store the timeline has at least one
\* bar, the selected index is inside it, and the proxy fields meter, groups,
\* pulseSubdivs and pulseSubdivMasks are those of the selected bar
C40_ProxiesFollowSelection ==
  /\ Len(store.bars) >= 1
  /\ store.selectedBarIndex \in 0..(Len(store.bars) - 1)
  /\ LET bar == store.bars[store.selectedBarIndex + 1]
     IN  /\ store.meter = bar.meter
         /\ store.groups = bar.groups
         /\ store.pulseSubdivs = bar.pulseSubdivs
         /\ store.pulseSubdivMasks = bar.pulseSubdivMasks

\* the second of two bars is selected and differs from the first in its meter
C40_Witness ==
  /\ Len(store.bars) = 2
  /\ store.selectedBarIndex = 1
  /\ store.bars[2].meter /= store.bars[1].meter
  /\ store.meter = store.bars[2].meter

\* C39: the state most recently emitted through onState is the status that
\* getStatus() returns (statusRef): no state event disagrees with the stored status
C39_EmittedIsStatus == lastState = statusRef

\* ===================================================== claims, scheduler
\* what the next beat to be scheduled gets: the meter, its slot count and its mask
NextBeatPlan ==
  [meter |-> sch.meter, slots |-> computeBeatSubdivAndMask(sch, sch.barTick, MAX_SUBDIV_WEB)]

\* C1: within one run, of every two consecutive tick events delivered to onTick
\* the later one has a strictly greater tickIndex and an atMs that is not smaller,
\* the ticks the adapter synthesizes for the slots of a beat included.
C1_TicksInOrder ==
  [][(OnNativeTick \/ SynthTimerFires \/ WebStartResume \/ \E id \in intervals : WebWake(id))
       => LET delivered == (IF lastTick = Null THEN <<>> ELSE << Val(lastTick) >>) \o ticksOut'
          IN  \A i \in 1..(Len(delivered) - 1) :
                /\ delivered[i + 1].tickIndex > delivered[i].tickIndex
                /\ delivered[i + 1].atMs >= delivered[i].atMs]_vars

\* C2: an update with applyAt "bar" published while a bar is playing (beats of the
\* bar remain to be scheduled) leaves those beats with the old snapshot: the meter,
\* slot count and mask of the next beat are what they were before the update.
C2_BarUpdateKeepsBar ==
  [][((\E o \in WebUpdateOptions : o.applyAt = Some("bar") /\ WebUpdate(o))
        /\ sch.isRunning /\ sch.barTick /= 0)
       => NextBeatPlan' = NextBeatPlan]_vars

\* the meter of the bar whose swap the adapter has queued
QueuedBarMeter == normalizeMeter(sch.bars[Val(sch.pendingBarIndex) + 1].meter)

\* C3: a tempo-only update (only bpm, boundary Now) that reaches the engine while
\* the adapter's next-bar swap is queued there leaves the swap queued: the engine
\* still holds the next bar's meter for the coming bar boundary, at the new tempo.
C3_TempoEditKeepsSwap ==
  [][(/\ EUpdateQueue
      /\ sch.native /\ sch.sequenceEnabled /\ sch.pendingBarIndex /= Null
      /\ Head(callQ).map.keys = {"bpm", "applyAt"}
      /\ pendingParams /= Null
      /\ Val(pendingParams).applyAt = "bar"
      /\ Val(pendingParams).meterN = QueuedBarMeter.n)
       => (/\ Val(pendingParams').meterN = QueuedBarMeter.n
           /\ Val(pendingParams').meterD = QueuedBarMeter.d
           /\ Val(pendingParams').bpm = coerceInNative(Head(callQ).map.bpm, 30, 300))]_vars

\* C37: every call of scheduleWindow returns after finitely many beats with
\* nextTickTime at or beyond now + SCHEDULE_AHEAD_MS: every turn of its loop moves
\* nextTickTime forward, towards the horizon, and the call returns with
\* nextTickTime >= now + SCHEDULE_AHEAD_MS, for every tempo and denominator that
\* start and update take
C37_WakeTerminates ==
  [][/\ WakeBeat => sch'.nextTickTime > sch.nextTickTime
     /\ WakeReturn => sch.nextTickTime >= now + SCHEDULE_AHEAD_MS]_vars

\* C38: every beat event of the native engine goes to onTick as slot 0 of a new
\* beat, with the engine's isDownbeat, and a slot after 0 made by a timer is
\* delivered only while its beat is the current one
C38_BeatEventIsSlotZero ==
  [][/\ OnNativeTick =>
          /\ ticksOut'[1].subIndex = 0
          /\ ticksOut'[1].isDownbeat = Head(tickQ).isDownbeat
          /\ sch'.nativePrevBeatKey /= Null
     /\ (SynthTimerFires /\ ticksOut' /= <<>>) =>
          /\ sch.nativePrevBeatKey = Some(Head(sch.nativeUiTimers).beatKey)
          /\ lastTick /= Null
          /\ Val(lastTick).barTick = Head(sch.nativeUiTimers).e.barTick
          /\ Val(lastTick).tickIndex \div 1000 = Head(sch.nativeUiTimers).e.tickIndex
               \/ Val(lastTick).tickIndex = Head(sch.nativeUiTimers).e.tickIndex]_vars

\* the click of slot subIndex of beat bt on the audio thread: 1800 Hz on the
\* downbeat, 1200 Hz on a group start, 800 Hz otherwise, 650 Hz for a slot after 0
ClickAccent(w, bt, subIndex) ==
  IF subIndex > 0 THEN "WEAK"
  ELSE IF bt = 0 THEN "BAR"
  ELSE IF bt + 1 \in DOMAIN wk[w].groupStarts /\ wk[w].groupStarts[bt + 1] THEN "GROUP"
  ELSE "WEAK"

\* the worker of the current run plays the configuration the scheduler holds:
\* nothing is on the way to the module and nothing is waiting in the pending slot
InStep(w) ==
  /\ sch.isRunning
  /\ thread = Some(w)
  /\ wk[w].pc \in {"loop", "tick", "write"}
  /\ callQ = <<>>
  /\ retQ = <<>>
  /\ modPc = "idle"
  /\ pendingParams = Null
  /\ active.meterN = sch.meter.n
  /\ active.meterD = sch.meter.d

\* C35: the accent level of the tick event of a slot is the accent class of the
\* click the audio thread synthesizes for that slot: while the worker plays the
\* configuration the scheduler holds, BAR goes with the downbeat click, GROUP with
\* a group-start click and WEAK with the other clicks, for every slot of the bar
C35_TickAccentIsClickAccent ==
  \A w \in Workers :
    InStep(w) =>
      \A bt \in 0..(sch.meter.n - 1) :
        \A i \in 0..(computeBeatSubdivAndMask(sch, bt, MAX_SUBDIV_NATIVE).beatSubdiv - 1) :
          getAccentForSubTick(sch, bt, i, MAX_SUBDIV_NATIVE) = ClickAccent(w, bt, i)

\* C33: on the native path the adapter commits the queued bar at the beat where
\* the engine applied that bar's parameters: when the listener commits the swap,
\* the next-bar update is neither still on its way to the module nor still
\* waiting in the engine's pending slot.
C33_CommitWithEngine ==
  [][(/\ OnNativeTick
      /\ sch.sequenceEnabled /\ sch.pendingBarIndex /= Null
      /\ Head(tickQ).barTick = 0)
       => (/\ \A i \in 1..Len(callQ) :
                callQ[i].op = "update" => callQ[i].map.applyAt /= "bar"
           /\ pendingParams /= Null => Val(pendingParams).applyAt /= "bar")]_vars

\* C34: in every state the bar index lies inside the timeline and the beat cursor
\* inside the active bar, and every tick event carries a barTick inside the bar,
\* also right after an update that shortens the bar or the timeline.
C34_CursorInsideBar ==
  /\ sch.barTick \in 0..(sch.meter.n - 1)
  /\ sch.sequenceEnabled => sch.barIndex \in 0..(Len(sch.bars) - 1)
  /\ \A i \in 1..Len(ticksOut) : ticksOut[i].barTick >= 0

\* the slot count of beat j of the active bar
SlotsOfBeat(t, j) == computeBeatSubdivAndMask(t, j, MAX_SUBDIV_WEB).beatSubdiv

\* the slots before beat b: the sum of S[j] for j < b
SlotsBefore(t, b) == SumSeq([j \in 1..b |-> SlotsOfBeat(t, j - 1)])

\* d = 4 and the groups sum to the bar's slots
GroupsFillPool(t) ==
  t.meter.d = 4 /\ Len(t.groups) > 0 /\ SumSeq(t.groups) = SlotsBefore(t, t.meter.n)

\* the accent of slot i of beat b as the two vectors give it
AccentOfSlot(t, b, i) ==
  IF GroupsFillPool(t)
    THEN LET pool == deriveAccentPerTick(t.meter, NumList(t.groups),
                                         [ticksPerBar |-> Some(SlotsBefore(t, t.meter.n))])
             idx == SlotsBefore(t, b) + i
         IN  IF idx < Len(pool) THEN Some(pool[idx + 1]) ELSE Null
    ELSE LET beat == deriveAccentPerTick(t.meter, NumList(t.groups), NoAccentOptions)
         IN  IF i > 0 THEN Some("WEAK")
             ELSE IF b < Len(beat) THEN Some(beat[b + 1]) ELSE Null

\* C36: the accent of slot i of the beat the scheduler is at is the entry
\* (slots before the beat) + i of the pool vector when d = 4 and the groups sum
\* to the bar's slots, an entry that exists; otherwise it is entry beat of the
\* beat vector for slot 0 and WEAK for the other slots.  The same for every
\* beat of the active bar.
C36_AccentOfSlot ==
  /\ \A b \in 0..(sch.meter.n - 1) : \A i \in 0..(SlotsOfBeat(sch, b) - 1) :
       Some(getAccentForSubTick(sch, b, i, MAX_SUBDIV_WEB)) = AccentOfSlot(sch, b, i)
  /\ \A i \in 0..(SlotsOfBeat(sch, sch.barTick) - 1) :
       Some(getAccentForSubTick(sch, sch.barTick, i, MAX_SUBDIV_WEB))
         = AccentOfSlot(sch, sch.barTick, i)

\* an update whose normalized content is the configuration in effect: same tempo,
\* same timeline fingerprint
SameContent(t, options) ==
  LET t1 == setFromOptions(t, options, "update")
  IN  /\ t1.bpm = t.bpm
      /\ computeTimelineSigFromCurrent(t1) = computeTimelineSigFromCurrent(t)

\* the timeline cursor and the queued bar swap
Cursor(t) == <<t.barIndex, t.barTick, t.tickIndex, t.nextTickTime, t.pendingBarIndex>>

\* C12: an update whose normalized content equals the configuration in effect is
\* a no-op: nothing is sent to the engine, and the cursor and any queued bar swap
\* stay as they are.
C12_SameContentIsNoop ==
  [][\A o \in NativeUpdateOptions \cup WebUpdateOptions :
       ((NativeUpdate(o) \/ WebUpdate(o)) /\ SameContent(sch, o))
         => (callQ' = callQ /\ Cursor(sch') = Cursor(sch))]_vars

\* a scheduling pass of the pull scheduler
WebPass == WebStartResume \/ \E id \in intervals : WebWake(id)

\* the beats among the tick events of the latest pass
IsBeatTick(x) == x.subIndex = 0

\* the position after the beat at <<bar index, beat>>, by the rule for the bars
NextPos(t, pos) ==
  IF pos[2] + 1 < normalizeMeter(t.bars[pos[1] + 1].meter).n
    THEN <<pos[1], pos[2] + 1>>
    ELSE << IF pos[1] + 1 < Len(t.bars) THEN pos[1] + 1
            ELSE IF t.loop THEN 0 ELSE Len(t.bars) - 1, 0 >>

\* C13: in sequence mode the beats follow the bars: after the last beat of bar b
\* the cursor is on b+1, else on 0 when looping, else stays on the last bar, with
\* the beat reset to 0 and the entered bar's meter in effect.
C13_BarsAdvance ==
  [][(WebPass /\ sch'.sequenceEnabled /\ ticksOut' /= <<>>) =>
       LET beats == SelectSeq(ticksOut', IsBeatTick)
           pos(i) == <<Val(beats[i].barIndex), beats[i].barTick>>
       IN  /\ pos(1)[1] = sch.barIndex
           /\ (\E id \in intervals : WebWake(id)) => pos(1)[2] = sch.barTick
           /\ \A i \in 1..(Len(beats) - 1) : pos(i + 1) = NextPos(sch', pos(i))
           /\ <<sch'.barIndex, sch'.barTick>> = NextPos(sch', pos(Len(beats)))
           /\ sch'.meter = normalizeMeter(sch'.bars[sch'.barIndex + 1].meter)]_vars

\* a pass has scheduled the last beat of bar 1 and then a beat of the bar after it
C13_Witness ==
  /\ sch.sequenceEnabled /\ sch.isRunning
  /\ \E i \in 1..(Len(ticksOut) - 1) :
       /\ ticksOut[i].barIndex = Some(1)
       /\ ticksOut[i + 1].barIndex \in {Some(0), Some(1)}
       /\ ticksOut[i + 1].barTick = 0

\* C14: the bar index onBarChange announces for a downbeat scheduled at time t is
\* the index of the bar that starts at t (the downbeat being one of the latest
\* pass), also when a bar is shorter than the schedule-ahead window.
C14_AnnouncesEnteredBar ==
  [][\A due \in notifyTimers :
       (NotifyFires(due) /\ sch'.lastNotifiedBarIndex /= sch.lastNotifiedBarIndex)
         => \A i \in 1..Len(ticksOut) :
              (ticksOut[i].atMs = due /\ ticksOut[i].barTick = 0 /\ ticksOut[i].subIndex = 0)
                => sch'.lastNotifiedBarIndex = ticksOut[i].barIndex]_vars

MeterOfTick(t, k) ==
  IF t.sequenceEnabled /\ k.barIndex /= Null
    THEN normalizeMeter(t.bars[Val(k.barIndex) + 1].meter)
    ELSE t.meter

\* C18: when the denominator of the active bar is not 4, every beat of the bar
\* is scheduled as a single-slot beat: one tick event, subCount 1.
C18_SingleSlotUnlessQuarter ==
  [][WebPass =>
       \A i \in 1..Len(ticksOut') :
         MeterOfTick(sch, ticksOut'[i]).d /= 4
           => (ticksOut'[i].subCount = 1 /\ ticksOut'[i].subIndex = 0)]_vars

\* the slot counts S of the beats of the active bar
SlotsOfBar(t) ==
  [i \in 1..t.meter.n |-> computeBeatSubdivAndMask(t, i - 1, MAX_SUBDIV_WEB).beatSubdiv]

\* groups are absent, or sizes in 2..8 that sum to n or, with d = 4, to the slots
GroupsWellFormed(groups, meter, slots) ==
  \/ groups = <<>>
  \/ /\ \A i \in 1..Len(groups) : groups[i] \in 2..8
     /\ \/ SumSeq(groups) = meter.n
        \/ (meter.d = 4 /\ SumSeq(groups) = SumSeq(slots))

\* the bars of the meter store the group lists are normalised against
\* (normalizePulseSubdivs keeps one slot count per beat)
StoreBars ==
  { [meter |-> [n |-> 4, d |-> 4], pulseSubdivs |-> <<1, 1, 1, 1>>],
    [meter |-> [n |-> 2, d |-> 4], pulseSubdivs |-> <<3, 3>>],
    [meter |-> [n |-> 2, d |-> 4], pulseSubdivs |-> <<2, 3>>],
    [meter |-> [n |-> 4, d |-> 8], pulseSubdivs |-> <<1, 1, 1, 1>>],
    [meter |-> [n |-> 5, d |-> 8], pulseSubdivs |-> <<1, 1, 1, 1, 1>>] }

BarShaped(bar) ==
  /\ Len(bar.pulseSubdivs) = bar.meter.n
  /\ Len(bar.pulseSubdivMasks) = bar.meter.n
  /\ \A i \in 1..Len(bar.pulseSubdivs) :
       /\ bar.pulseSubdivs[i] \in 1..16
       /\ Len(bar.pulseSubdivMasks[i]) = bar.pulseSubdivs[i]

\* the scheduler's normalizeBars on the incoming timelines
IncomingBarsShaped ==
  \A tl \in IncomingTimelines :
    \A k \in 1..Len(tl) :
      LET bar == normalizeBars(tl)[k]
      IN  Len(bar.pulseSubdivs) > 0 => BarShaped(bar)

\* C21: every bar of the meter store, after any sequence of its operations, and
\* every bar of a timeline normalised by the scheduler that carries S, has
\* |S| = n, every S[i] in 1..16 and |M[i]| = S[i] for every beat i.
C21_BarsShaped ==
  /\ Len(store.bars) >= 1
  /\ \A k \in 1..Len(store.bars) : BarShaped(store.bars[k])
  /\ \A k \in 1..Len(store.bars) :
       LET bar == normalizeBars(store.bars)[k]
       IN  Len(bar.pulseSubdivs) > 0 => BarShaped(bar)
  /\ IncomingBarsShaped

\* a bar whose slot counts were clamped at both ends and whose masks were edited
C21_Witness ==
  \E k \in 1..Len(store.bars) :
    /\ store.bars[k].meter.n = 2
    /\ store.bars[k].pulseSubdivs = <<3, 16>>
    /\ store.bars[k].pulseSubdivMasks[1] = <<FALSE, TRUE, TRUE>>
    /\ ~store.bars[k].pulseSubdivMasks[2][16]

\* the normalised configuration the scheduler holds, tempo and cursor left out:
\* the bars (the one bar of the single-bar fields when no sequence is set), the
\* global subdivision and mask, the beat guide and the loop flag
LogicalConfig(t) ==
  LET seq == t.sequenceEnabled /\ Len(t.bars) > 0
  IN  [sequence |-> seq,
       bars |-> IF seq THEN t.bars
                ELSE << BarConfig(t.meter, t.groups, t.pulseSubdivs, t.pulseSubdivMasks) >>,
       subdiv |-> t.subdiv, subdivMask |-> t.subdivMask,
       beatGuide |-> t.beatGuideEnabled, loop |-> t.loop]

IncomingIdempotent ==
  \A tl \in IncomingTimelines :
    /\ normalizeBars(normalizeBars(tl)) = normalizeBars(tl)
    /\ \A k \in 1..Len(tl) :
         normalizeIncomingBar(normalizeIncomingBar(tl[k])) = normalizeIncomingBar(tl[k])

\* C23: normalising a normalised bar changes nothing: every bar of the meter
\* store is a fixed point of normalizeIncomingBar, and for every incoming bar and
\* timeline normalizeIncomingBar, normalizeGroupsForBar and the scheduler's
\* normalizeBars give the same result when applied a second time.
C23_NormalizeIdempotent ==
  /\ \A k \in 1..Len(store.bars) :
       /\ normalizeIncomingBar(store.bars[k]) = store.bars[k]
       /\ \A g \in { <<2>>, <<2, 2>>, <<2, 9>> } :
            normalizeGroupsForBar(normalizeGroupsForBar(g, store.bars[k]), store.bars[k])
              = normalizeGroupsForBar(g, store.bars[k])
  /\ normalizeBars(normalizeBars(store.bars)) = normalizeBars(store.bars)
  /\ IncomingIdempotent

\* the store holds a bar that normalisation changed: 0/70 with S = [20] came in
C23_Witness ==
  \E k \in 1..Len(store.bars) :
    /\ store.bars[k].meter = [n |-> 1, d |-> 64]
    /\ store.bars[k].pulseSubdivs = <<16>>

\* the number of ticks of the bar of a call: ticks_per_bar, meter.n by default
TicksOfCall(c) ==
  IF c.options.ticksPerBar /= Null THEN Max2(0, Val(c.options.ticksPerBar))
  ELSE Max2(0, c.meter.n)

\* a groups list of whole sizes in 2..8 that sum to the bar's ticks
ValidGroupsOfCall(c) ==
  /\ Len(c.groups) > 0
  /\ \A i \in 1..Len(c.groups) :
       c.groups[i].fin /\ c.groups[i].h % 2 = 0 /\ c.groups[i].h \div 2 \in 2..8
  /\ SumSeq([i \in 1..Len(c.groups) |-> c.groups[i].h \div 2]) = TicksOfCall(c)

\* the tick index at which group j + 1 starts
StartOfGroup(c, j) == SumSeq([i \in 1..j |-> c.groups[i].h \div 2])

\* C26: for a valid groups list the vector has one entry per tick, GROUP exactly
\* at the start of every group after the first and WEAK at every other index
\* above 0.
C26_GroupStartsMarked ==
  accent /= Null =>
    LET c == Val(accent)
    IN  ValidGroupsOfCall(c) =>
          /\ DOMAIN c.result = 1..TicksOfCall(c)
          /\ \A k \in 1..(Len(c.result) - 1) :
               c.result[k + 1] =
                 IF \E j \in 1..(Len(c.groups) - 1) : StartOfGroup(c, j) = k
                   THEN "GROUP" ELSE "WEAK"

\* 11/8 with [3,3,3,2]: F x x m x x m x x m x
C26_Witness ==
  /\ accent /= Null
  /\ Val(accent).meter = [n |-> 11, d |-> 8]
  /\ Val(accent).groups = NumList(<<3, 3, 3, 2>>)
  /\ Val(accent).options.ticksPerBar = Null
  /\ Val(accent).result = <<"BAR", "WEAK", "WEAK", "GROUP", "WEAK", "WEAK", "GROUP",
                            "WEAK", "WEAK", "GROUP", "WEAK">>

\* C27: the vector has ticks_per_bar entries (meter.n by default) and BAR at
\* index 0 when it is not empty, for every meter and groups argument; with n = 0
\* or ticks_per_bar = 0 it is empty.
C27_LengthAndDownbeat ==
  accent /= Null =>
    LET c == Val(accent)
    IN  /\ Len(c.result) = TicksOfCall(c)
        /\ Len(c.result) > 0 => c.result[1] = "BAR"
        /\ (c.options.ticksPerBar = Some(0)
              \/ (c.options.ticksPerBar = Null /\ c.meter.n = 0)) => c.result = <<>>

\* a pool of 20 ticks over a 5/4 bar, with a groups list
C27_Witness ==
  /\ accent /= Null
  /\ Val(accent).meter = [n |-> 5, d |-> 4]
  /\ Val(accent).options.ticksPerBar = Some(20)
  /\ Val(accent).groups = NumList(<<8, 8, 4>>)
  /\ Len(Val(accent).result) = 20
  /\ Val(accent).result[1] = "BAR"

C29_InvalidGroupsFallBack ==
  accent /= Null =>
    LET c == Val(accent)
    IN  (Len(c.groups) > 0 /\ ~ValidGroupsOfCall(c)) =>
          c.result = deriveAccentPerTick(c.meter, <<>>, c.options)

\* 6/8 with [3, 2.5, 0.5]: the sum is 6 and the compound default is returned
C29_Witness ==
  /\ accent /= Null
  /\ Val(accent).meter = [n |-> 6, d |-> 8]
  /\ Val(accent).groups = <<Num(3), Half(2), Half(0)>>
  /\ Val(accent).options.ticksPerBar = Null
  /\ Val(accent).result = <<"BAR", "WEAK", "WEAK", "GROUP", "WEAK", "WEAK">>

\* the totals reached from 0 by adding positive sizes of the list at most k times
RECURSIVE ReachedIn(_, _, _)
ReachedIn(k, total, sizes) ==
  IF k = 0 THEN {0}
  ELSE LET before == ReachedIn(k - 1, total, sizes)
       IN  before \cup { r + sizes[i] : r \in before,
                           i \in { j \in 1..Len(sizes) : sizes[j] > 0 } }

\* C30: entry 0 of the table is true and entry t, 1 <= t <= total, is true
\* exactly when t is reached from 0 by adding positive sizes of the list; a size
\* of 0 or less makes nothing reachable.
C30_CanFillReachable ==
  canFill /= Null =>
    LET c == Val(canFill)
    IN  /\ DOMAIN c.result = 1..(c.total + 1)
        /\ c.result[1]
        /\ \A t \in 1..c.total :
             c.result[t + 1] <=> t \in ReachedIn(c.total, c.total, c.sizes)

\* total 5 with sizes [0, -1, 3]: true,false,false,true,false,false
C30_Witness ==
  /\ canFill /= Null
  /\ Val(canFill).total = 5
  /\ Val(canFill).sizes = <<0, -1, 3>>
  /\ Val(canFill).result = <<TRUE, FALSE, FALSE, TRUE, FALSE, FALSE>>

\* C25: when the host throws while one click is enqueued, the exception stays
\* inside the wake: the tick event of that slot is emitted, the cursor and the
\* next beat time advance, and no exception reaches the host's timer.
C25_ClickFailureContained ==
  [][(\E id \in intervals : \E tracked \in BOOLEAN : WebWakeClickThrows(id, tracked))
       => /\ escaped' = escaped
          /\ ticksOut' /= <<>>
          /\ sch'.tickIndex > sch.tickIndex
          /\ sch'.nextTickTime > sch.nextTickTime]_vars

C20_TempoClamped ==
  /\ calls > 0 => sch.bpm \in 30..300
  /\ active.bpm \in 30..300
  /\ pendingParams /= Null => Val(pendingParams).bpm \in 30..300

\* C5: once stop() has completed and until start() is called again, no tick event
\* and no bar-change callback is delivered and no scheduled node stays tracked.
C5_QuietAfterStop ==
  [][stopped' =>
       (/\ sch'.scheduledNodes = {}
        /\ (WebStartResume \/ \E id \in intervals : WebWake(id)) => ticksOut' = <<>>
        /\ sch'.lastNotifiedBarIndex \in {Null, sch.lastNotifiedBarIndex})]_vars

\* C6: at every moment at most one scheduler interval timer exists, and at most
\* one audio worker is inside the loop body emitting ticks.
C6_SingleProducer ==
  /\ Cardinality(intervals) <= 1
  /\ Cardinality({w \in Workers : wk[w].pc \in {"beat", "apply", "tick"}}) <= 1

====
